---- MODULE Spec2Model ----
(***************************************************************************)
(* Model of the bedrock Server Runner (RunWithCORS), its health tracker    *)
(* and the two listener goroutines it spawns.                              *)
(***************************************************************************)
EXTENDS Integers, Sequences, FiniteSets, TLC

VARIABLES
    cfg,            \* config.BaseConfig: [HTTPPort, HealthPort]
    routes,         \* what app.Routes() returns: sequence of [Method, Path]
    pc,             \* position of the goroutine executing RunWithCORS
    healthStatus,   \* *HealthStatus: [healthy, ready]
    healthServer,   \* state of the http.Server returned by startHealthServer
    server,         \* state of the main http.Server
    router,         \* registrations on the main mux.Router, in order
    regIdx,         \* index of the next route in the registration loop
    onStartCalls,   \* number of invocations of app.OnStart
    onStartResult,  \* "none" | "ok" | "err"
    onStopCalls,    \* number of invocations of app.OnStop
    onStopResult,   \* "none" | "ok" | "err"
    notified,       \* signal.Notify(quit, SIGINT, SIGTERM) has been called
    quit,           \* number of signals buffered in the quit channel (cap 1)
    sigDelivered,   \* number of SIGINT/SIGTERM delivered to the process
    sigReceived,    \* <-quit has returned
    mainDrain,      \* result of server.Shutdown: "none" | "ok" | "timeout" | "err"
    healthDrain,    \* result of healthServer.Shutdown
    runResult,      \* "running" | "nil" | "startError"
    lastProbe,      \* last response served by the health listener
    now,            \* time.Now(), in clock ticks
    token,          \* the token string under consideration
    issued,         \* the GenerateJWT call that produced token, if any
    validated,      \* outcome of the last ValidateJWT call
    middlewares,    \* the middlewares given to Chain
    handler,        \* the Handler built by Chain
    request,        \* the last request dispatched to handler
    response,       \* what handler returned for it, and what it executed
    environ,        \* the process environment: variable name -> [set, val]
    configFile,     \* what is found at the Loader's configPath
    config,         \* the argument given to Load
    loaded,         \* outcome of the last Load call
    resolved,       \* outcome of the last port getter call
    corsConfig,     \* the CORSConfig given to RunWithCORS
    appRoutes,      \* the application's routes, with their middleware
    mainRouter,     \* what the registration loop put on the mux.Router
    httpRequest,    \* the last request received by the main server
    httpResponse,   \* what was written for it, and what ran
    mu,             \* HealthStatus.mu: [writer, readers]
    threads,        \* the goroutines calling methods of the HealthStatus
    lastWritten     \* the flags as the last completed Set calls left them

runVars == <<cfg, routes, pc, healthStatus, healthServer, server, router,
             regIdx, onStartCalls, onStartResult, onStopCalls, onStopResult,
             notified, quit, sigDelivered, sigReceived, mainDrain, healthDrain,
             runResult, lastProbe>>

authVars == <<now, token, issued, validated, middlewares, handler, request,
              response>>

loadVars == <<environ, configFile, config, loaded, resolved>>

\* the state of the library functions, which RunWithCORS never touches
corsVars == <<corsConfig, appRoutes, mainRouter, httpRequest, httpResponse>>

lockVars == <<mu, threads, lastWritten>>

libVars == <<authVars, loadVars, corsVars, lockVars>>

vars == <<runVars, libVars>>

(***************************************************************************)
(* Bounds                                                                  *)
(***************************************************************************)
MaxRoutes == 2
MaxSignals == 2

Ports == {8080, 8081}
Methods == {"GET"}
Paths == {"/health", "/items"}
HealthPaths == {"/health", "/ready", "/live"}
DrainResults == {"ok", "timeout", "err"}

RouteSet == [Method : Methods, Path : Paths]
RouteLists == UNION {[1..n -> RouteSet] : n \in 0..MaxRoutes}

(***************************************************************************)
(* HealthStatus (health.go)                                                *)
(***************************************************************************)
newHealthStatus == [healthy |-> FALSE, ready |-> FALSE]

SetHealthy_NoWrite(h, healthy) == h

SetHealthy(h, healthy) == [h EXCEPT !.healthy = healthy]

SetReady_BothFlags(h, ready) == [healthy |-> ready, ready |-> ready]

SetReady(h, ready) == [h EXCEPT !.ready = ready]

IsHealthy(h) == h.healthy

IsReady(h) == h.ready

StatusOK == 200
StatusServiceUnavailable == 503

healthCheckHandler(status) ==
    IF IsHealthy(status) THEN StatusOK ELSE StatusServiceUnavailable

readyCheckHandler(status) ==
    IF IsReady(status) THEN StatusOK ELSE StatusServiceUnavailable

liveCheckHandler_AsReady(status) == readyCheckHandler(status)

liveCheckHandler(status) == healthCheckHandler(status)

\* the ServeMux built by startHealthServer
HealthMux(path, status) ==
    CASE path = "/health" -> healthCheckHandler(status)
      [] path = "/ready"  -> readyCheckHandler(status)
      [] path = "/live"   -> liveCheckHandler(status)

\* no token issued, no chain built, no request served
AuthIdle ==
    /\ now = 0
    /\ token = <<>>
    /\ issued = [op |-> "none"]
    /\ validated = [op |-> "none"]
    /\ middlewares = <<>>
    /\ handler = <<>>
    /\ request = [op |-> "none"]
    /\ response = [op |-> "none"]

\* the names of the environment variables the configuration types name
EnvNames == {"HTTP_PORT", "HEALTH_PORT", "METRICS_PORT", "LOG_LEVEL",
             "ENVIRONMENT", "LEVEL", "WORKERS", "DEBUG", "SECRET", "TAGS",
             "POOL_SIZE"}

\* the variables of Nomad's dynamic port allocation, by port label
NomadNames == {"NOMAD_PORT_http", "NOMAD_PORT_health", "NOMAD_PORT_metrics"}

\* an environment variable that is not set
Unset == [set |-> FALSE, val |-> <<>>]

\* no environment, no configuration file, no Load call made
LoadIdle ==
    /\ environ = [k \in EnvNames \cup NomadNames |-> Unset]
    /\ configFile = [state |-> "missing"]
    /\ config = [kind |-> "nil", type |-> "", isNil |-> TRUE, elem |-> <<>>]
    /\ loaded = [done |-> FALSE]
    /\ resolved = [op |-> "none"]

\* goroutines that use the HealthStatus at once
MaxThreads == 3

Threads == 1..MaxThreads

\* a goroutine outside every method of the HealthStatus
Outside == [op |-> "none", arg |-> FALSE, pc |-> "idle", ret |-> FALSE]

\* the zero sync.RWMutex: unlocked
Unlocked == [writer |-> FALSE, readers |-> 0]

\* the lock free, no method of the HealthStatus being executed
LockIdle ==
    /\ mu = Unlocked
    /\ threads = [t \in Threads |-> Outside]
    /\ lastWritten = newHealthStatus

\* DefaultCORSConfig()
DefaultCORSConfig ==
    [AllowedOrigins |-> <<"*">>,
     AllowedMethods |-> <<"GET", "POST", "PUT", "DELETE", "PATCH", "OPTIONS">>,
     AllowedHeaders |-> <<"Accept", "Authorization", "Content-Type",
                          "X-CSRF-Token">>,
     ExposedHeaders |-> <<"Link">>,
     AllowCredentials |-> FALSE,
     MaxAge |-> 300]

\* no route registered on the main router, no request received
CorsIdle ==
    /\ corsConfig = DefaultCORSConfig
    /\ appRoutes = <<>>
    /\ mainRouter = <<>>
    /\ httpRequest = [op |-> "none"]
    /\ httpResponse = [op |-> "none"]

(***************************************************************************)
(* Initial state: RunWithCORS entered, healthStatus constructed.           *)
(***************************************************************************)
Init ==
    /\ cfg \in [HTTPPort : Ports, HealthPort : Ports]
    /\ routes \in RouteLists
    /\ pc = "startHealth"
    /\ healthStatus = newHealthStatus
    /\ healthServer = "none"
    /\ server = "none"
    /\ router = <<>>
    /\ regIdx = 1
    /\ onStartCalls = 0
    /\ onStartResult = "none"
    /\ onStopCalls = 0
    /\ onStopResult = "none"
    /\ notified = FALSE
    /\ quit = 0
    /\ sigDelivered = 0
    /\ sigReceived = FALSE
    /\ mainDrain = "none"
    /\ healthDrain = "none"
    /\ runResult = "running"
    /\ lastProbe = [path |-> "none", status |-> 0]
    /\ AuthIdle
    /\ LoadIdle
    /\ CorsIdle
    /\ LockIdle

(***************************************************************************)
(* RunWithCORS, statement by statement                                     *)
(***************************************************************************)

\* healthServer := startHealthServer(...): builds the server and spawns the
\* goroutine that will call ListenAndServe; returns without waiting for it.
StartHealthServer ==
    /\ pc = "startHealth"
    /\ healthServer' = "spawned"
    /\ pc' = "callOnStart"
    /\ UNCHANGED <<cfg, routes, healthStatus, server, router, regIdx,
                   onStartCalls, onStartResult, onStopCalls, onStopResult,
                   notified, quit, sigDelivered, sigReceived, mainDrain,
                   healthDrain, runResult, lastProbe>>
    /\ UNCHANGED libVars

\* app.OnStart(ctx) is entered
InvokeOnStart ==
    /\ pc = "callOnStart"
    /\ onStartCalls' = onStartCalls + 1
    /\ pc' = "inOnStart"
    /\ UNCHANGED <<cfg, routes, healthStatus, healthServer, server, router,
                   regIdx, onStartResult, onStopCalls, onStopResult, notified,
                   quit, sigDelivered, sigReceived, mainDrain, healthDrain,
                   runResult, lastProbe>>
    /\ UNCHANGED libVars

OnStartReturns_IgnoreErr ==
    /\ pc = "inOnStart"
    /\ \E res \in {"ok", "err"} :
         /\ onStartResult' = res
         /\ pc' = "setHealthy"
         /\ runResult' = runResult
    /\ UNCHANGED <<cfg, routes, healthStatus, healthServer, server, router,
                   regIdx, onStartCalls, onStopCalls, onStopResult, notified,
                   quit, sigDelivered, sigReceived, mainDrain, healthDrain,
                   lastProbe>>
    /\ UNCHANGED libVars

\* app.OnStart returns; on error RunWithCORS returns the wrapped error
OnStartReturns ==
    /\ pc = "inOnStart"
    /\ \E res \in {"ok", "err"} :
         /\ onStartResult' = res
         /\ IF res = "err"
              THEN pc' = "returned" /\ runResult' = "startError"
              ELSE pc' = "setHealthy" /\ runResult' = runResult
    /\ UNCHANGED <<cfg, routes, healthStatus, healthServer, server, router,
                   regIdx, onStartCalls, onStopCalls, onStopResult, notified,
                   quit, sigDelivered, sigReceived, mainDrain, healthDrain,
                   lastProbe>>
    /\ UNCHANGED libVars

\* healthStatus.SetHealthy(true)
MarkHealthy ==
    /\ pc = "setHealthy"
    /\ healthStatus' = SetHealthy(healthStatus, TRUE)
    /\ pc' = "getRoutes"
    /\ UNCHANGED <<cfg, routes, healthServer, server, router, regIdx,
                   onStartCalls, onStartResult, onStopCalls, onStopResult,
                   notified, quit, sigDelivered, sigReceived, mainDrain,
                   healthDrain, runResult, lastProbe>>
    /\ UNCHANGED libVars

\* routes := app.Routes(); if len(routes) == 0 { ... }
GetRoutes ==
    /\ pc = "getRoutes"
    /\ pc' = IF Len(routes) = 0 THEN "bgSetReady" ELSE "register"
    /\ UNCHANGED <<cfg, routes, healthStatus, healthServer, server, router,
                   regIdx, onStartCalls, onStartResult, onStopCalls,
                   onStopResult, notified, quit, sigDelivered, sigReceived,
                   mainDrain, healthDrain, runResult, lastProbe>>
    /\ UNCHANGED libVars


(***************************************************************************)
(* Background mode: no routes declared (bedrock.go 88-113)                 *)
(***************************************************************************)

\* healthStatus.SetReady(true)
BgMarkReady ==
    /\ pc = "bgSetReady"
    /\ healthStatus' = SetReady(healthStatus, TRUE)
    /\ pc' = "bgNotify"
    /\ UNCHANGED <<cfg, routes, healthServer, server, router, regIdx,
                   onStartCalls, onStartResult, onStopCalls, onStopResult,
                   notified, quit, sigDelivered, sigReceived, mainDrain,
                   healthDrain, runResult, lastProbe>>
    /\ UNCHANGED libVars

\* quit := make(chan os.Signal, 1); signal.Notify(quit, SIGINT, SIGTERM)
BgNotify ==
    /\ pc = "bgNotify"
    /\ notified' = TRUE
    /\ pc' = "bgWait"
    /\ UNCHANGED <<cfg, routes, healthStatus, healthServer, server, router,
                   regIdx, onStartCalls, onStartResult, onStopCalls,
                   onStopResult, quit, sigDelivered, sigReceived, mainDrain,
                   healthDrain, runResult, lastProbe>>
    /\ UNCHANGED libVars

\* <-quit
BgWaitQuit ==
    /\ pc = "bgWait"
    /\ quit > 0
    /\ quit' = quit - 1
    /\ sigReceived' = TRUE
    /\ pc' = "bgShutdownHealth"
    /\ UNCHANGED <<cfg, routes, healthStatus, healthServer, server, router,
                   regIdx, onStartCalls, onStartResult, onStopCalls,
                   onStopResult, notified, sigDelivered, mainDrain,
                   healthDrain, runResult, lastProbe>>
    /\ UNCHANGED libVars

\* healthServer.Shutdown(shutdownCtx) is entered: the listener is closed
BgBeginShutdownHealth ==
    /\ pc = "bgShutdownHealth"
    /\ healthServer' = "draining"
    /\ pc' = "bgInShutdownHealth"
    /\ UNCHANGED <<cfg, routes, healthStatus, server, router, regIdx,
                   onStartCalls, onStartResult, onStopCalls, onStopResult,
                   notified, quit, sigDelivered, sigReceived, mainDrain,
                   healthDrain, runResult, lastProbe>>
    /\ UNCHANGED libVars

\* healthServer.Shutdown returns; its error is discarded
BgShutdownHealthReturns ==
    /\ pc = "bgInShutdownHealth"
    /\ \E res \in DrainResults : healthDrain' = res
    /\ healthServer' = "closed"
    /\ pc' = "bgOnStop"
    /\ UNCHANGED <<cfg, routes, healthStatus, server, router, regIdx,
                   onStartCalls, onStartResult, onStopCalls, onStopResult,
                   notified, quit, sigDelivered, sigReceived, mainDrain,
                   runResult, lastProbe>>
    /\ UNCHANGED libVars

\* app.OnStop(ctx); the error is logged; return nil
BgCallOnStop ==
    /\ pc = "bgOnStop"
    /\ onStopCalls' = onStopCalls + 1
    /\ \E res \in {"ok", "err"} : onStopResult' = res
    /\ runResult' = "nil"
    /\ pc' = "returned"
    /\ UNCHANGED <<cfg, routes, healthStatus, healthServer, server, router,
                   regIdx, onStartCalls, onStartResult, notified, quit,
                   sigDelivered, sigReceived, mainDrain, healthDrain,
                   lastProbe>>
    /\ UNCHANGED libVars

(***************************************************************************)
(* HTTP mode (bedrock.go 115-194)                                          *)
(***************************************************************************)

\* one iteration of the registration loop: the route under its method,
\* then the OPTIONS responder for the same path
RegisterRoute ==
    /\ pc = "register"
    /\ regIdx <= Len(routes)
    /\ router' = router \o <<[Path |-> routes[regIdx].Path,
                              Method |-> routes[regIdx].Method,
                              Kind |-> "route"],
                             [Path |-> routes[regIdx].Path,
                              Method |-> "OPTIONS",
                              Kind |-> "preflight"]>>
    /\ regIdx' = regIdx + 1
    /\ pc' = IF regIdx = Len(routes) THEN "startMain" ELSE "register"
    /\ UNCHANGED <<cfg, routes, healthStatus, healthServer, server,
                   onStartCalls, onStartResult, onStopCalls, onStopResult,
                   notified, quit, sigDelivered, sigReceived, mainDrain,
                   healthDrain, runResult, lastProbe>>
    /\ UNCHANGED libVars

\* server := &http.Server{...}; go func() { server.ListenAndServe() }()
StartMainServer ==
    /\ pc = "startMain"
    /\ server' = "spawned"
    /\ pc' = "setReady"
    /\ UNCHANGED <<cfg, routes, healthStatus, healthServer, router, regIdx,
                   onStartCalls, onStartResult, onStopCalls, onStopResult,
                   notified, quit, sigDelivered, sigReceived, mainDrain,
                   healthDrain, runResult, lastProbe>>
    /\ UNCHANGED libVars

\* healthStatus.SetReady(true)
MarkReady ==
    /\ pc = "setReady"
    /\ healthStatus' = SetReady(healthStatus, TRUE)
    /\ pc' = "notify"
    /\ UNCHANGED <<cfg, routes, healthServer, server, router, regIdx,
                   onStartCalls, onStartResult, onStopCalls, onStopResult,
                   notified, quit, sigDelivered, sigReceived, mainDrain,
                   healthDrain, runResult, lastProbe>>
    /\ UNCHANGED libVars

\* quit := make(chan os.Signal, 1); signal.Notify(quit, SIGINT, SIGTERM)
Notify ==
    /\ pc = "notify"
    /\ notified' = TRUE
    /\ pc' = "wait"
    /\ UNCHANGED <<cfg, routes, healthStatus, healthServer, server, router,
                   regIdx, onStartCalls, onStartResult, onStopCalls,
                   onStopResult, quit, sigDelivered, sigReceived, mainDrain,
                   healthDrain, runResult, lastProbe>>
    /\ UNCHANGED libVars

\* <-quit
WaitQuit ==
    /\ pc = "wait"
    /\ quit > 0
    /\ quit' = quit - 1
    /\ sigReceived' = TRUE
    /\ pc' = "setNotReady"
    /\ UNCHANGED <<cfg, routes, healthStatus, healthServer, server, router,
                   regIdx, onStartCalls, onStartResult, onStopCalls,
                   onStopResult, notified, sigDelivered, mainDrain,
                   healthDrain, runResult, lastProbe>>
    /\ UNCHANGED libVars

\* healthStatus.SetReady(false)
MarkNotReady ==
    /\ pc = "setNotReady"
    /\ healthStatus' = SetReady(healthStatus, FALSE)
    /\ pc' = "shutdownMain"
    /\ UNCHANGED <<cfg, routes, healthServer, server, router, regIdx,
                   onStartCalls, onStartResult, onStopCalls, onStopResult,
                   notified, quit, sigDelivered, sigReceived, mainDrain,
                   healthDrain, runResult, lastProbe>>
    /\ UNCHANGED libVars

\* server.Shutdown(shutdownCtx) is entered: the listener is closed
BeginShutdownMain ==
    /\ pc = "shutdownMain"
    /\ server' = "draining"
    /\ pc' = "inShutdownMain"
    /\ UNCHANGED <<cfg, routes, healthStatus, healthServer, router, regIdx,
                   onStartCalls, onStartResult, onStopCalls, onStopResult,
                   notified, quit, sigDelivered, sigReceived, mainDrain,
                   healthDrain, runResult, lastProbe>>
    /\ UNCHANGED libVars

ShutdownMainReturns_SkipHealth ==
    /\ pc = "inShutdownMain"
    /\ \E res \in DrainResults : mainDrain' = res
    /\ server' = "closed"
    /\ pc' = "onStop"
    /\ runResult' = runResult
    /\ UNCHANGED <<cfg, routes, healthStatus, healthServer, router, regIdx,
                   onStartCalls, onStartResult, onStopCalls, onStopResult,
                   notified, quit, sigDelivered, sigReceived, healthDrain,
                   lastProbe>>
    /\ UNCHANGED libVars

ShutdownMainReturns_Abort ==
    /\ pc = "inShutdownMain"
    /\ \E res \in DrainResults :
         /\ mainDrain' = res
         /\ IF res = "ok"
              THEN pc' = "shutdownHealth" /\ runResult' = runResult
              ELSE pc' = "returned" /\ runResult' = "shutdownError"
    /\ server' = "closed"
    /\ UNCHANGED <<cfg, routes, healthStatus, healthServer, router, regIdx,
                   onStartCalls, onStartResult, onStopCalls, onStopResult,
                   notified, quit, sigDelivered, sigReceived, healthDrain,
                   lastProbe>>
    /\ UNCHANGED libVars

\* server.Shutdown returns; an error is only logged
ShutdownMainReturns ==
    /\ pc = "inShutdownMain"
    /\ \E res \in DrainResults : mainDrain' = res
    /\ server' = "closed"
    /\ pc' = "shutdownHealth"
    /\ runResult' = runResult
    /\ UNCHANGED <<cfg, routes, healthStatus, healthServer, router, regIdx,
                   onStartCalls, onStartResult, onStopCalls, onStopResult,
                   notified, quit, sigDelivered, sigReceived, healthDrain,
                   lastProbe>>
    /\ UNCHANGED libVars

\* healthServer.Shutdown(shutdownCtx) is entered
BeginShutdownHealth ==
    /\ pc = "shutdownHealth"
    /\ healthServer' = "draining"
    /\ pc' = "inShutdownHealth"
    /\ UNCHANGED <<cfg, routes, healthStatus, server, router, regIdx,
                   onStartCalls, onStartResult, onStopCalls, onStopResult,
                   notified, quit, sigDelivered, sigReceived, mainDrain,
                   healthDrain, runResult, lastProbe>>
    /\ UNCHANGED libVars

\* healthServer.Shutdown returns; an error is only logged
ShutdownHealthReturns ==
    /\ pc = "inShutdownHealth"
    /\ \E res \in DrainResults : healthDrain' = res
    /\ healthServer' = "closed"
    /\ pc' = "onStop"
    /\ UNCHANGED <<cfg, routes, healthStatus, server, router, regIdx,
                   onStartCalls, onStartResult, onStopCalls, onStopResult,
                   notified, quit, sigDelivered, sigReceived, mainDrain,
                   runResult, lastProbe>>
    /\ UNCHANGED libVars

\* app.OnStop(ctx); the error is logged; return nil
CallOnStop ==
    /\ pc = "onStop"
    /\ onStopCalls' = onStopCalls + 1
    /\ \E res \in {"ok", "err"} : onStopResult' = res
    /\ runResult' = "nil"
    /\ pc' = "returned"
    /\ UNCHANGED <<cfg, routes, healthStatus, healthServer, server, router,
                   regIdx, onStartCalls, onStartResult, notified, quit,
                   sigDelivered, sigReceived, mainDrain, healthDrain,
                   lastProbe>>
    /\ UNCHANGED libVars

(***************************************************************************)
(* The listener goroutines                                                 *)
(***************************************************************************)

\* the goroutine of startHealthServer reaches ListenAndServe: the bind of
\* cfg.HealthPort succeeds unless the port is taken (by another process, or
\* by the main listener of this process)
HealthListen ==
    /\ healthServer = "spawned"
    /\ pc # "killed"
    /\ \E free \in BOOLEAN :
         healthServer' =
            IF free /\ ~(server = "listening" /\ cfg.HTTPPort = cfg.HealthPort)
              THEN "listening" ELSE "bindFailed"
    /\ UNCHANGED <<cfg, routes, pc, healthStatus, server, router, regIdx,
                   onStartCalls, onStartResult, onStopCalls, onStopResult,
                   notified, quit, sigDelivered, sigReceived, mainDrain,
                   healthDrain, runResult, lastProbe>>
    /\ UNCHANGED libVars

\* the goroutine of the main server reaches ListenAndServe
MainListen ==
    /\ server = "spawned"
    /\ pc # "killed"
    /\ \E free \in BOOLEAN :
         server' =
            IF free /\ ~(healthServer = "listening"
                         /\ cfg.HTTPPort = cfg.HealthPort)
              THEN "listening" ELSE "bindFailed"
    /\ UNCHANGED <<cfg, routes, pc, healthStatus, healthServer, router,
                   regIdx, onStartCalls, onStartResult, onStopCalls,
                   onStopResult, notified, quit, sigDelivered, sigReceived,
                   mainDrain, healthDrain, runResult, lastProbe>>
    /\ UNCHANGED libVars

\* a probe is served by the health listener
ServeHealthRequest ==
    /\ healthServer = "listening"
    /\ \E path \in HealthPaths :
         lastProbe' = [path |-> path, status |-> HealthMux(path, healthStatus)]
    /\ UNCHANGED <<cfg, routes, pc, healthStatus, healthServer, server,
                   router, regIdx, onStartCalls, onStartResult, onStopCalls,
                   onStopResult, notified, quit, sigDelivered, sigReceived,
                   mainDrain, healthDrain, runResult>>
    /\ UNCHANGED libVars

(***************************************************************************)
(* Process signals                                                         *)
(***************************************************************************)
Kill(srv) == IF srv = "none" THEN "none" ELSE "killed"

\* SIGINT or SIGTERM reaches the process.  After signal.Notify the runtime
\* does a non-blocking send on quit (capacity 1); before it the default
\* disposition applies and the process exits.
DeliverSignal ==
    /\ pc \notin {"returned", "killed"}
    /\ sigDelivered < MaxSignals
    /\ sigDelivered' = sigDelivered + 1
    /\ IF notified
         THEN /\ quit' = IF quit < 1 THEN quit + 1 ELSE quit
              /\ UNCHANGED <<pc, server, healthServer>>
         ELSE /\ pc' = "killed"
              /\ server' = Kill(server)
              /\ healthServer' = Kill(healthServer)
              /\ quit' = quit
    /\ UNCHANGED <<cfg, routes, healthStatus, router, regIdx, onStartCalls,
                   onStartResult, onStopCalls, onStopResult, notified,
                   sigReceived, mainDrain, healthDrain, runResult, lastProbe>>
    /\ UNCHANGED libVars

Next ==
    \/ StartHealthServer
    \/ InvokeOnStart
    \/ OnStartReturns
    \/ MarkHealthy
    \/ GetRoutes
    \/ BgMarkReady
    \/ BgNotify
    \/ BgWaitQuit
    \/ BgBeginShutdownHealth
    \/ BgShutdownHealthReturns
    \/ BgCallOnStop
    \/ RegisterRoute
    \/ StartMainServer
    \/ MarkReady
    \/ Notify
    \/ WaitQuit
    \/ MarkNotReady
    \/ BeginShutdownMain
    \/ ShutdownMainReturns
    \/ BeginShutdownHealth
    \/ ShutdownHealthReturns
    \/ CallOnStop
    \/ HealthListen
    \/ MainListen
    \/ ServeHealthRequest
    \/ DeliverSignal

Spec == Init /\ [][Next]_vars

(***************************************************************************)
(* Properties of the Server Runner                                         *)
(***************************************************************************)
Merged == cfg.HTTPPort = cfg.HealthPort

HasRoutes == Len(routes) > 0

Drained(srv) == srv \in {"draining", "closed"}

\* C1: whenever app.OnStart is executing, the health listener is already
\* serving /health, /ready and /live, and the main listener is started only
\* after OnStart has returned success.
C1_HealthServedBeforeOnStart ==
    /\ pc = "inOnStart" => healthServer = "listening"
    /\ server # "none" => onStartResult = "ok"

\* C2: healthy is true only if OnStart returned success; when OnStart returns
\* an error Run returns the wrapped error and neither healthy nor ready is
\* ever true in that run.
C2_HealthyOnlyAfterOnStart ==
    /\ healthStatus.healthy => onStartResult = "ok"
    /\ healthStatus.ready => onStartResult = "ok"
    /\ onStartResult = "err" =>
          /\ pc = "returned"
          /\ runResult = "startError"
          /\ ~healthStatus.healthy
          /\ ~healthStatus.ready

C2_Witness ==
    /\ onStartResult = "err"
    /\ pc = "returned"
    /\ runResult = "startError"

\* C3: with at least one declared route, ready = true implies that the main
\* listener is accepting connections.
C3_ReadyImpliesListening ==
    (HasRoutes /\ pc # "killed" /\ healthStatus.ready) => server = "listening"

\* C4: once a listener has begun draining, ready is false and stays false,
\* with routes declared and in background mode alike.
C4_NotReadyBeforeDrain ==
    (Drained(server) \/ Drained(healthServer)) => ~healthStatus.ready

\* C5: a SIGINT/SIGTERM delivered at any point of Run leads to the graceful
\* shutdown: a run in which OnStart succeeded and a signal was delivered
\* does not end without OnStop having been invoked.
C5_SignalAlwaysGraceful ==
    (sigDelivered > 0 /\ onStartResult = "ok" /\ pc \in {"returned", "killed"})
        => onStopCalls >= 1

C7_ShutdownErrorsNonFatal ==
    /\ mainDrain \in {"timeout", "err"} =>
          /\ pc \in {"shutdownHealth", "inShutdownHealth", "onStop", "returned"}
          /\ pc = "returned" =>
                (healthDrain # "none" /\ onStopCalls = 1 /\ runResult = "nil")
    /\ healthDrain \in {"timeout", "err"} =>
          /\ pc \in {"bgOnStop", "onStop", "returned"}
          /\ pc = "returned" => (onStopCalls = 1 /\ runResult = "nil")
    /\ onStopResult = "err" => (pc = "returned" /\ runResult = "nil")

C7_Witness ==
    /\ pc = "returned"
    /\ mainDrain = "timeout"
    /\ healthDrain = "err"
    /\ onStopResult = "err"
    /\ runResult = "nil"

HealthRegisteredFirst ==
    /\ Len(router) >= 3
    /\ \A i \in 1..3 : router[i].Kind = "health"

\* C8: a separate health listener exists if and only if the HTTP port differs
\* from the health port; with equal ports the health endpoints are the first
\* registrations on the main router.
C8_HealthListenerIffPortsDiffer ==
    /\ healthServer # "none" => ~Merged
    /\ (~Merged /\ pc \notin {"startHealth", "killed"}) => healthServer # "none"
    /\ (Merged /\ server # "none") => HealthRegisteredFirst

ReservedRouteDeclared ==
    \E i \in 1..Len(routes) : routes[i].Path \in HealthPaths

\* C9: in merged mode a declared route on /health, /ready or /live makes Run
\* fail with a route-conflict error; the main listener is never started and
\* ready is never set.
C9_ReservedPathConflict ==
    (Merged /\ ReservedRouteDeclared) =>
        /\ server = "none"
        /\ ~healthStatus.ready
        /\ (pc = "returned" /\ onStartResult = "ok") => runResult = "routeConflict"

\* C10: ready = true implies healthy = true, so /ready never answers 200 in
\* a state in which /health answers 503.
C10_ReadyImpliesHealthy ==
    /\ healthStatus.ready => healthStatus.healthy
    /\ HealthMux("/ready", healthStatus) = StatusOK =>
          HealthMux("/health", healthStatus) = StatusOK

C10_Witness ==
    /\ healthStatus.ready
    /\ lastProbe = [path |-> "/ready", status |-> StatusOK]

(***************************************************************************)
(* Properties of the health endpoints                                      *)
(***************************************************************************)
FlagOf(path, h) == IF path = "/ready" THEN h.ready ELSE h.healthy

\* C11: every response of the health listener is 200 when the flag of its
\* endpoint is true and 503 otherwise: /health and /live follow healthy,
\* /ready follows ready, and nothing else enters the status.
C11_StatusFollowsFlag ==
    [][lastProbe' # lastProbe =>
          lastProbe'.status = IF FlagOf(lastProbe'.path, healthStatus)
                                THEN 200 ELSE 503]_vars

C11_Witness ==
    /\ healthStatus.healthy
    /\ ~healthStatus.ready
    /\ lastProbe = [path |-> "/live", status |-> StatusOK]

(***************************************************************************)
(* Token Service (auth.go): GenerateJWT and ValidateJWT over               *)
(* github.com/golang-jwt/jwt/v5.                                           *)
(*                                                                         *)
(* A token string is the sequence of its dot-separated segments.  A        *)
(* signature is an ideal MAC: it equals another one exactly when it was    *)
(* made by the same method, over the same signing input, with the same     *)
(* key.  The clock counts ticks; jwt.NumericDate keeps whole seconds.      *)
(***************************************************************************)
TicksPerSecond == 2
MaxTime == 4
MaxTTL == 3

UserIDs == {"", "alice", "bob"}
Secrets == {"k1", "k2"}
Durations == (0 - MaxTTL)..MaxTTL

HMACMethods == {"HS256", "HS512"}

\* jwt.NewNumericDate: t.Truncate(jwt.TimePrecision)
NewNumericDate(t) == t - (t % TicksPerSecond)

StringValue(v) == [type |-> "string", v |-> v]

\* the JSON form of jwt.RegisteredClaims{Subject, IssuedAt, ExpiresAt}: the
\* fields are tagged omitempty, so an empty Subject leaves no "sub" member
RegisteredClaims(subject, issuedAt, expiresAt) ==
    IF subject = ""
      THEN [iat |-> issuedAt, exp |-> expiresAt]
      ELSE [sub |-> StringValue(subject), iat |-> issuedAt, exp |-> expiresAt]

HeaderSegment(alg) == [kind |-> "header", alg |-> alg]

ClaimsSegment(claims) == [kind |-> "claims", claims |-> claims]

\* Token.SignedString: the signature segment for a signing input and a key
Sign(alg, signingInput, key) ==
    [kind |-> "signature", alg |-> alg, over |-> signingInput, key |-> key]

SignedString(alg, claims, key) ==
    LET h == HeaderSegment(alg)
        c == ClaimsSegment(claims)
    IN  <<h, c, Sign(alg, <<h, c>>, key)>>

GenerateJWT_NoNow(userID, secret, expiration, t) ==
    SignedString("HS256",
                 RegisteredClaims(userID, NewNumericDate(t),
                                  NewNumericDate(expiration)),
                 secret)

\* GenerateJWT(userID, secret, expiration), called when time.Now() is t
GenerateJWT(userID, secret, expiration, t) ==
    SignedString("HS256",
                 RegisteredClaims(userID, NewNumericDate(t),
                                  NewNumericDate(t + expiration)),
                 secret)

\* jwt.Parser: three segments that decode as header, claims and signature
WellFormed(tokenString) ==
    /\ Len(tokenString) = 3
    /\ tokenString[1].kind = "header"
    /\ tokenString[2].kind = "claims"
    /\ tokenString[3].kind = "signature"

\* the key function given to jwt.Parse: only *jwt.SigningMethodHMAC passes
KeyFuncAccepts(tokenString) == tokenString[1].alg \in HMACMethods

\* SigningMethodHMAC.Verify with the key the key function returned
SignatureVerifies(tokenString, secret) ==
    tokenString[3] =
        Sign(tokenString[1].alg, <<tokenString[1], tokenString[2]>>, secret)

\* the claims validator of jwt v5: a present "exp" must be after now
NotExpired(tokenString, t) ==
    LET claims == tokenString[2].claims
    IN  "exp" \in DOMAIN claims => t < claims.exp

\* claims["sub"].(string)
SubjectOf(tokenString) ==
    LET claims == tokenString[2].claims
    IN  IF "sub" \in DOMAIN claims /\ claims.sub.type = "string"
          THEN [userID |-> claims.sub.v, ok |-> TRUE]
          ELSE [userID |-> "", ok |-> FALSE]

Failure(err) == [userID |-> "", err |-> err]

ValidateJWT_Unverified(tokenString, secret, t) ==
    IF ~WellFormed(tokenString) THEN Failure("token is malformed")
    ELSE IF ~NotExpired(tokenString, t) THEN Failure("token is expired")
    ELSE IF ~SubjectOf(tokenString).ok THEN Failure("missing user ID in token")
    ELSE [userID |-> SubjectOf(tokenString).userID, err |-> "nil"]

ValidateJWT_NoExpiry(tokenString, secret, t) ==
    IF ~WellFormed(tokenString) THEN Failure("token is malformed")
    ELSE IF ~KeyFuncAccepts(tokenString) THEN Failure("invalid signing method")
    ELSE IF ~SignatureVerifies(tokenString, secret)
      THEN Failure("signature is invalid")
    ELSE IF ~SubjectOf(tokenString).ok THEN Failure("missing user ID in token")
    ELSE [userID |-> SubjectOf(tokenString).userID, err |-> "nil"]

\* ValidateJWT(tokenString, secret), called when time.Now() is t
ValidateJWT(tokenString, secret, t) ==
    IF ~WellFormed(tokenString) THEN Failure("token is malformed")
    ELSE IF ~KeyFuncAccepts(tokenString) THEN Failure("invalid signing method")
    ELSE IF ~SignatureVerifies(tokenString, secret)
      THEN Failure("signature is invalid")
    ELSE IF ~NotExpired(tokenString, t) THEN Failure("token is expired")
    ELSE IF ~SubjectOf(tokenString).ok THEN Failure("missing user ID in token")
    ELSE [userID |-> SubjectOf(tokenString).userID, err |-> "nil"]

\* token strings that GenerateJWT did not produce
RawSegment == [kind |-> "raw"]

ForeignTokens(t) ==
    LET far == NewNumericDate(t) + 2 * TicksPerSecond
        alice == [sub |-> StringValue("alice"), exp |-> far]
    IN  {<<RawSegment>>, <<RawSegment, RawSegment, RawSegment>>,
         <<HeaderSegment("none"), ClaimsSegment(alice),
           [kind |-> "signature", alg |-> "none"]>>}
        \cup {SignedString("RS256", alice, "rsa-private")}
        \cup {SignedString("HS512", alice, k) : k \in Secrets}
        \cup {SignedString("HS256", [exp |-> far], k) : k \in Secrets}
        \cup {SignedString("HS256", [sub |-> [type |-> "number", v |-> "7"],
                                     exp |-> far], k) : k \in Secrets}
        \cup {SignedString("HS256", [sub |-> StringValue("alice")], k) :
                k \in Secrets}

\* the run-time state of Run, at rest while the library functions are used
RunIdle ==
    /\ cfg = [HTTPPort |-> 8080, HealthPort |-> 8081]
    /\ routes = <<>>
    /\ pc = "startHealth"
    /\ healthStatus = newHealthStatus
    /\ healthServer = "none"
    /\ server = "none"
    /\ router = <<>>
    /\ regIdx = 1
    /\ onStartCalls = 0
    /\ onStartResult = "none"
    /\ onStopCalls = 0
    /\ onStopResult = "none"
    /\ notified = FALSE
    /\ quit = 0
    /\ sigDelivered = 0
    /\ sigReceived = FALSE
    /\ mainDrain = "none"
    /\ healthDrain = "none"
    /\ runResult = "running"
    /\ lastProbe = [path |-> "none", status |-> 0]

JwtInit == RunIdle /\ AuthIdle /\ LoadIdle /\ CorsIdle /\ LockIdle

\* time passes (followed up to the moment a dispatched request is answered)
Tick ==
    /\ now < MaxTime
    /\ request.op = "none"
    /\ now' = now + 1
    /\ UNCHANGED <<token, issued, validated, middlewares, handler, request,
                   response>>
    /\ UNCHANGED <<runVars, loadVars, corsVars, lockVars>>

\* token, err := GenerateJWT(userID, secret, expiration)
IssueToken ==
    /\ \E userID \in UserIDs, secret \in Secrets, expiration \in Durations :
         /\ token' = GenerateJWT(userID, secret, expiration, now)
         /\ issued' = [op |-> "GenerateJWT", userID |-> userID,
                       secret |-> secret, expiration |-> expiration,
                       at |-> now]
    /\ validated' = [op |-> "none"]
    /\ UNCHANGED <<now, middlewares, handler, request, response>>
    /\ UNCHANGED <<runVars, loadVars, corsVars, lockVars>>

\* a token string arrives that this service did not issue
ReceiveForeignToken ==
    /\ \E tokenString \in ForeignTokens(now) : token' = tokenString
    /\ issued' = [op |-> "foreign"]
    /\ validated' = [op |-> "none"]
    /\ UNCHANGED <<now, middlewares, handler, request, response>>
    /\ UNCHANGED <<runVars, loadVars, corsVars, lockVars>>

\* the holder of an issued token rewrites its subject, keeping the signature
TamperToken ==
    /\ issued.op = "GenerateJWT"
    /\ \E userID \in UserIDs \ {"", issued.userID} :
         token' = [token EXCEPT ![2] = ClaimsSegment(
                      [sub |-> StringValue(userID),
                       iat |-> token[2].claims.iat,
                       exp |-> token[2].claims.exp])]
    /\ issued' = [op |-> "tampered"]
    /\ validated' = [op |-> "none"]
    /\ UNCHANGED <<now, middlewares, handler, request, response>>
    /\ UNCHANGED <<runVars, loadVars, corsVars, lockVars>>

\* userID, err := ValidateJWT(token, secret)
Validate ==
    /\ token # <<>>
    /\ \E secret \in Secrets :
         LET r == ValidateJWT(token, secret, now)
         IN  validated' =
               [op |-> "ValidateJWT", secret |-> secret, at |-> now,
                userID |-> r.userID, err |-> r.err,
                before |-> IF validated.op = "ValidateJWT"
                                /\ validated.secret = secret
                             THEN validated.err ELSE "none"]
    /\ UNCHANGED <<now, token, issued, middlewares, handler, request,
                   response>>
    /\ UNCHANGED <<runVars, loadVars, corsVars, lockVars>>

JwtNext ==
    \/ Tick
    \/ IssueToken
    \/ ReceiveForeignToken
    \/ TamperToken
    \/ Validate

JwtSpec == JwtInit /\ [][JwtNext]_vars

(***************************************************************************)
(* Properties of the Token Service                                         *)
(***************************************************************************)
Validated == validated.op = "ValidateJWT"

IssuedHere == issued.op = "GenerateJWT"

C16_SubjectOnlyIfVerified ==
    Validated =>
        /\ validated.err = "nil" =>
              /\ WellFormed(token)
              /\ token[1].alg \in HMACMethods
              /\ token[3] = Sign(token[1].alg, <<token[1], token[2]>>,
                                 validated.secret)
              /\ "sub" \in DOMAIN token[2].claims
              /\ token[2].claims.sub = StringValue(validated.userID)
        /\ validated.err # "nil" => validated.userID = ""
        /\ (IssuedHere /\ issued.secret # validated.secret) =>
              validated.err # "nil"
        /\ (IssuedHere /\ issued.userID = "") => validated.err # "nil"
        /\ issued.op = "tampered" => validated.err # "nil"

C16_Witness ==
    /\ Validated
    /\ IssuedHere
    /\ issued.expiration > 0
    /\ issued.secret # validated.secret
    /\ validated.at = issued.at
    /\ validated.err = "signature is invalid"
    /\ validated.userID = ""

\* C17: ValidateJWT fails for every token whose expiration claim is not
\* strictly after the time of validation, so for every token issued with a
\* negative ttl; the same token can validate at one time and fail later.
C17_ExpiredFails ==
    Validated =>
        /\ (/\ WellFormed(token)
            /\ "exp" \in DOMAIN token[2].claims
            /\ validated.at >= token[2].claims.exp) => validated.err # "nil"
        /\ (IssuedHere /\ issued.expiration < 0) => validated.err # "nil"

C17_Witness ==
    /\ Validated
    /\ IssuedHere
    /\ validated.secret = issued.secret
    /\ validated.before = "nil"
    /\ validated.err = "token is expired"

(***************************************************************************)
(* Middleware chain (password.go 54-76) and RequireAuth (auth.go 34-70).   *)
(*                                                                         *)
(* A Handler is the list of what runs when it is called, outermost         *)
(* middleware first, the terminal handler last: a middleware applied to a  *)
(* Handler puts itself in front of it.  A header value is a sequence of    *)
(* chunks: a space, a word, or a token string.                             *)
(***************************************************************************)
MaxChain == 3
MaxHeaderLen == 3

StatusUnauthorized == 401
StatusInternalServerError == 500

\* JSON(statusCode, data)
JSON(statusCode, data) == [StatusCode |-> statusCode, Data |-> data]

\* Error(data)
Error(data) == JSON(StatusInternalServerError, data)

\* context.Context: the WithValue pairs, innermost (latest) last
Background == <<>>

userIDKey == [type |-> "contextKey", name |-> "userID"]

RECURSIVE Value(_, _)
Value(ctx, key) ==
    IF ctx = <<>> THEN [type |-> "nil"]
    ELSE IF ctx[Len(ctx)].key = key THEN ctx[Len(ctx)].val
    ELSE Value(SubSeq(ctx, 1, Len(ctx) - 1), key)

WithUserID(ctx, userID) ==
    Append(ctx, [key |-> userIDKey, val |-> StringValue(userID)])

GetUserID(ctx) ==
    LET userID == Value(ctx, userIDKey)
    IN  IF userID.type = "string"
          THEN [userID |-> userID.v, ok |-> TRUE]
          ELSE [userID |-> "", ok |-> FALSE]

\* contexts a request can arrive with: none carries a value under userIDKey
BaseContexts ==
    {Background,
     <<[key |-> [type |-> "string", name |-> "userID"],
        val |-> StringValue("mallory")]>>}

Space == [c |-> "space"]

Word(w) == [c |-> "word", w |-> w]

TokenChunk(tokenString) == [c |-> "token", t |-> tokenString]

HeaderChunks(tokenString) ==
    {Space, Word("Bearer"), Word("bearer"), TokenChunk(tokenString)}

\* values of the Authorization header; the empty one is the absent header
Headers(tokenString) ==
    UNION {[1..n -> HeaderChunks(tokenString)] : n \in 0..MaxHeaderLen}

\* strings.Split(s, " ")
RECURSIVE Split(_)
Split(s) ==
    IF \A i \in 1..Len(s) : s[i] # Space THEN <<s>>
    ELSE LET i == CHOOSE j \in 1..Len(s) :
                     /\ s[j] = Space
                     /\ \A k \in 1..(j - 1) : s[k] # Space
         IN  <<SubSeq(s, 1, i - 1)>> \o Split(SubSeq(s, i + 1, Len(s)))

\* the token string a part of the header spells
TokenStringOf(part) ==
    IF part = <<>> THEN <<>>
    ELSE IF Len(part) = 1 /\ part[1].c = "token" THEN part[1].t
    ELSE <<RawSegment>>

\* middlewares: one that records its run and calls next, one that answers
\* itself, and RequireAuth(secret)
Log(id) == [kind |-> "log", id |-> id]

Deny == [kind |-> "deny", id |-> "deny"]

Auth(secret) == [kind |-> "auth", id |-> "auth", secret |-> secret]

\* the terminal handler: answers with what GetUserID finds in its context
Terminal(statusCode) == [kind |-> "handler", id |-> "handler",
                         status |-> statusCode]

Wrap_Behind(m, final) == final \o <<m>>

\* middlewares[i](final)
Wrap(m, final) == <<m>> \o final

RECURSIVE ChainUp(_, _, _)
ChainUp(final, mws, i) ==
    IF i > Len(mws) THEN final
    ELSE ChainUp(Wrap(mws[i], final), mws, i + 1)

Chain_Forward(h, mws) == ChainUp(h, mws, 1)

\* for i := len(middlewares) - 1; i >= 0; i-- { final = middlewares[i](final) }
RECURSIVE ChainLoop(_, _, _)
ChainLoop(final, mws, i) ==
    IF i < 1 THEN final
    ELSE ChainLoop(Wrap(mws[i], final), mws, i - 1)

\* Chain(handler, middlewares...)
Chain(h, mws) == ChainLoop(h, mws, Len(mws))

Reject(msg) ==
    [resp |-> JSON(StatusUnauthorized, [error |-> msg]),
     trace |-> <<"auth">>, seen |-> <<>>]

RECURSIVE Serve(_, _, _, _)

RequireAuth_AnyScheme(secret, next, ctx, r, t) ==
    LET authHeader == r.Authorization
        parts == Split(authHeader)
    IN  IF authHeader = <<>> THEN Reject("missing authorization header")
        ELSE IF Len(parts) # 2 THEN Reject("invalid authorization format")
        ELSE LET v == ValidateJWT(TokenStringOf(parts[2]), secret, t)
             IN  IF v.err # "nil" THEN Reject("invalid token")
                 ELSE LET out == Serve(next, WithUserID(ctx, v.userID), r, t)
                      IN  [out EXCEPT !.trace = <<"auth">> \o @]

RequireAuth_NoContext(secret, next, ctx, r, t) ==
    LET authHeader == r.Authorization
        parts == Split(authHeader)
    IN  IF authHeader = <<>> THEN Reject("missing authorization header")
        ELSE IF Len(parts) # 2 \/ parts[1] # <<Word("Bearer")>>
          THEN Reject("invalid authorization format")
        ELSE LET v == ValidateJWT(TokenStringOf(parts[2]), secret, t)
             IN  IF v.err # "nil" THEN Reject("invalid token")
                 ELSE LET out == Serve(next, ctx, r, t)
                      IN  [out EXCEPT !.trace = <<"auth">> \o @]

RequireAuth_ReportsReason(secret, next, ctx, r, t) ==
    LET authHeader == r.Authorization
        parts == Split(authHeader)
    IN  IF authHeader = <<>> THEN Reject("missing authorization header")
        ELSE IF Len(parts) # 2 \/ parts[1] # <<Word("Bearer")>>
          THEN Reject("invalid authorization format")
        ELSE LET v == ValidateJWT(TokenStringOf(parts[2]), secret, t)
             IN  IF v.err # "nil" THEN Reject(v.err)
                 ELSE LET out == Serve(next, WithUserID(ctx, v.userID), r, t)
                      IN  [out EXCEPT !.trace = <<"auth">> \o @]

\* the Handler RequireAuth(secret)(next), called with (ctx, r) at time t
RequireAuth(secret, next, ctx, r, t) ==
    LET authHeader == r.Authorization
        parts == Split(authHeader)
    IN  IF authHeader = <<>> THEN Reject("missing authorization header")
        ELSE IF Len(parts) # 2 \/ parts[1] # <<Word("Bearer")>>
          THEN Reject("invalid authorization format")
        ELSE LET v == ValidateJWT(TokenStringOf(parts[2]), secret, t)
             IN  IF v.err # "nil" THEN Reject("invalid token")
                 ELSE LET out == Serve(next, WithUserID(ctx, v.userID), r, t)
                      IN  [out EXCEPT !.trace = <<"auth">> \o @]

\* the call h(ctx, r) at time t: the response, the order in which the parts
\* of h ran, and the contexts the terminal handler was called with
Serve(h, ctx, r, t) ==
    LET m == Head(h)
        next == Tail(h)
    IN  CASE m.kind = "handler" ->
               [resp |-> JSON(m.status, GetUserID(ctx)),
                trace |-> <<m.id>>, seen |-> <<ctx>>]
          [] m.kind = "log" ->
               LET out == Serve(next, ctx, r, t)
               IN  [out EXCEPT !.trace = <<m.id>> \o @]
          [] m.kind = "deny" ->
               [resp |-> Error([error |-> "denied"]),
                trace |-> <<m.id>>, seen |-> <<>>]
          [] m.kind = "auth" -> RequireAuth(m.secret, next, ctx, r, t)

HandlerStatuses == {StatusOK, StatusInternalServerError}

\* handler := Chain(terminal, middlewares...)
Compose ==
    /\ handler = <<>>
    /\ \E statusCode \in HandlerStatuses :
         handler' = Chain(<<Terminal(statusCode)>>, middlewares)
    /\ UNCHANGED <<now, token, issued, validated, middlewares, request,
                   response>>
    /\ UNCHANGED <<runVars, loadVars, corsVars, lockVars>>

\* a request is dispatched: response := handler(ctx, r).  The handler keeps
\* no state between requests, so one request per behaviour is examined.
Dispatch ==
    /\ handler # <<>>
    /\ request.op = "none"
    /\ \E authHeader \in Headers(token), ctx \in BaseContexts :
         LET r == [op |-> "request", Authorization |-> authHeader,
                   ctx |-> ctx, at |-> now]
             out == Serve(handler, ctx, r, now)
         IN  /\ request' = r
             /\ response' = [op |-> "response", resp |-> out.resp,
                             trace |-> out.trace, seen |-> out.seen]
    /\ UNCHANGED <<now, token, issued, validated, middlewares, handler>>
    /\ UNCHANGED <<runVars, loadVars, corsVars, lockVars>>

ChainMiddlewares == {Log("m1"), Log("m2"), Log("m3"), Deny, Auth("k1")}

ChainInit ==
    /\ RunIdle
    /\ LoadIdle
    /\ CorsIdle
    /\ LockIdle
    /\ now = 0
    /\ token \in {GenerateJWT("alice", "k1", MaxTTL, 0), <<RawSegment>>}
    /\ issued = [op |-> "none"]
    /\ validated = [op |-> "none"]
    /\ middlewares \in UNION {[1..n -> ChainMiddlewares] : n \in 0..MaxChain}
    /\ handler = <<>>
    /\ request = [op |-> "none"]
    /\ response = [op |-> "none"]

ChainNext ==
    \/ Compose
    \/ Dispatch

ChainSpec == ChainInit /\ [][ChainNext]_vars

AuthInit ==
    /\ RunIdle
    /\ LoadIdle
    /\ CorsIdle
    /\ LockIdle
    /\ now = 0
    /\ token \in {GenerateJWT(u, k, d, 0) :
                     u \in UserIDs, k \in Secrets, d \in Durations}
                 \cup ForeignTokens(0)
    /\ issued = [op |-> "none"]
    /\ validated = [op |-> "none"]
    /\ middlewares \in {<<Auth(k)>> : k \in Secrets}
    /\ handler = <<>>
    /\ request = [op |-> "none"]
    /\ response = [op |-> "none"]

AuthNext ==
    \/ Tick
    \/ Compose
    \/ Dispatch

AuthSpec == AuthInit /\ [][AuthNext]_vars

(***************************************************************************)
(* Properties of Chain and RequireAuth                                     *)
(***************************************************************************)
Served == response.op = "response"

RECURSIVE IdsOf(_)
IdsOf(mws) == IF mws = <<>> THEN <<>> ELSE <<Head(mws).id>> \o IdsOf(Tail(mws))

AllDelegate == \A i \in 1..Len(middlewares) : middlewares[i].kind = "log"

\* C12: when every middleware delegates, the handler built by
\* Chain(handler, m1, ..., mn) runs m1, then m2, ..., then mn, then the
\* terminal handler, which is called exactly once; for n = 0 only the
\* terminal handler runs.
C12_ChainOrder ==
    (Served /\ AllDelegate) =>
        /\ response.trace = IdsOf(middlewares) \o <<"handler">>
        /\ Len(response.seen) = 1

C12_Witness ==
    /\ Served
    /\ middlewares = <<Log("m2"), Log("m1"), Log("m3")>>
    /\ response.trace = <<"m2", "m1", "m3", "handler">>

\* the header is exactly "Bearer", one space, and a part without a space
BearerShaped(authHeader) ==
    /\ Len(authHeader) >= 2
    /\ authHeader[1] = Word("Bearer")
    /\ authHeader[2] = Space
    /\ \A i \in 3..Len(authHeader) : authHeader[i] # Space

\* what ValidateJWT says, at the time of the request, of the text that
\* follows "Bearer " in its header
BearerValidation ==
    ValidateJWT(TokenStringOf(SubSeq(request.Authorization, 3,
                                     Len(request.Authorization))),
                middlewares[1].secret, request.at)

Authenticated ==
    /\ BearerShaped(request.Authorization)
    /\ BearerValidation.err = "nil"

\* C13: RequireAuth answers 401 and does not call the next handler when
\* the Authorization header is absent, is not exactly "Bearer <token>", or
\* carries a token that fails validation under the configured secret.
C13_RejectsUnauthenticated ==
    (Served /\ ~Authenticated) =>
        /\ response.resp.StatusCode = StatusUnauthorized
        /\ response.seen = <<>>
        /\ response.trace = <<"auth">>

C13_Witness ==
    /\ Served
    /\ request.Authorization = <<Word("bearer"), Space, TokenChunk(token)>>
    /\ ValidateJWT(token, middlewares[1].secret, request.at).err = "nil"
    /\ response.resp.StatusCode = StatusUnauthorized

\* C14: for "Bearer <token>" with a token valid under the configured
\* secret, RequireAuth calls the next handler exactly once, with a context
\* in which GetUserID finds the token's subject, and returns that handler's
\* response as it is; GetUserID finds nothing in a context that WithUserID
\* was never applied to.
C14_PassesIdentity ==
    /\ (Served /\ Authenticated) =>
          /\ Len(response.seen) = 1
          /\ GetUserID(response.seen[1]) =
                [userID |-> BearerValidation.userID, ok |-> TRUE]
          /\ response.resp =
                JSON(handler[Len(handler)].status,
                     [userID |-> BearerValidation.userID, ok |-> TRUE])
    /\ request.op = "request" => ~GetUserID(request.ctx).ok

C14_Witness ==
    /\ Served
    /\ Authenticated
    /\ request.ctx # Background
    /\ request.at > 0
    /\ response.resp = JSON(StatusInternalServerError,
                          [userID |-> "bob", ok |-> TRUE])

(***************************************************************************)
(* Config Loader: Loader.Load, the TOML decode and the environment         *)
(* overlay.  A Go string is the sequence of its characters, so that what   *)
(* strconv makes of it is computed and not assumed.                        *)
(***************************************************************************)

\* most environment variables set at once
MaxEnvSet == 2

\* the values an environment variable is set to
EnvStrings == {<<>>, <<"4", "2">>, <<"3", "0", "0">>, <<"-", "1">>,
               <<"t", "r", "u", "e">>, <<"0">>}

\* os.Getenv: the empty string for a variable that is not set
Getenv(env, key) == IF env[key].set THEN env[key].val ELSE <<>>

\* reflect.StructField: name, kind, type, `env` tag and whether exported
Field(name, kind, type, env, exported) ==
    [Name |-> name, Kind |-> kind, Type |-> type, Env |-> env,
     Exported |-> exported]

BaseConfig ==
    <<Field("HTTPPort", "Int", "int", "HTTP_PORT", TRUE),
      Field("HealthPort", "Int", "int", "HEALTH_PORT", TRUE),
      Field("MetricsPort", "Int", "int", "METRICS_PORT", TRUE),
      Field("LogLevel", "String", "string", "LOG_LEVEL", TRUE),
      Field("Environment", "String", "string", "ENVIRONMENT", TRUE)>>

\* two levels of nested application structs
Pool == <<Field("Size", "Int", "int", "POOL_SIZE", TRUE)>>

Limits == <<Field("Pool", "Struct", "Pool", "", TRUE)>>

\* an application's configuration: BaseConfig embedded under Bedrock, then
\* fields of the kinds setFieldFromString switches on, one without an env
\* tag, one unexported and one of a kind the switch does not handle
AppConfig ==
    <<Field("Bedrock", "Struct", "BaseConfig", "", TRUE),
      Field("Name", "String", "string", "", TRUE),
      Field("Level", "Int8", "int8", "LEVEL", TRUE),
      Field("Workers", "Uint8", "uint8", "WORKERS", TRUE),
      Field("Debug", "Bool", "bool", "DEBUG", TRUE),
      Field("secret", "String", "string", "SECRET", FALSE),
      Field("Tags", "Slice", "[]string", "TAGS", TRUE),
      Field("Limits", "Struct", "Limits", "", TRUE)>>

StructTypes ==
    [BaseConfig |-> BaseConfig, Pool |-> Pool, Limits |-> Limits,
     AppConfig |-> AppConfig]

FieldsOf(t) == {StructTypes[t][i] : i \in DOMAIN StructTypes[t]}

\* the zero value of a field of the given kind
ZeroOf(kind) ==
    CASE kind = "String" -> <<>>
      [] kind = "Slice"  -> <<>>
      [] kind = "Bool"   -> FALSE
      [] OTHER           -> 0

\* the zero value of a struct type: `var config T`
RECURSIVE Zero(_)
Zero(t) ==
    [n \in {f.Name : f \in FieldsOf(t)} |->
        LET f == CHOOSE g \in FieldsOf(t) : g.Name = n
        IN  IF f.Kind = "Struct" THEN Zero(f.Type) ELSE ZeroOf(f.Kind)]

\* errors: nil, or the chain of wrapped messages with what each one names
NoError == <<>>

Errorf(msg, field, env, value, cause) ==
    <<[msg |-> msg, field |-> field, env |-> env, value |-> value]>> \o cause

\* what Load can be given
NilInterface == [kind |-> "nil", type |-> "", isNil |-> TRUE, elem |-> <<>>]

Destinations ==
    {NilInterface,
     [kind |-> "Struct", type |-> "AppConfig", isNil |-> FALSE,
      elem |-> Zero("AppConfig")],
     [kind |-> "Ptr", type |-> "string", isNil |-> FALSE, elem |-> <<>>],
     [kind |-> "Ptr", type |-> "AppConfig", isNil |-> TRUE,
      elem |-> Zero("AppConfig")],
     [kind |-> "Ptr", type |-> "AppConfig", isNil |-> FALSE,
      elem |-> Zero("AppConfig")]}

\* rv.Elem().Kind(): Invalid for the element of a nil pointer
ElemKind(c) ==
    IF c.isNil THEN "Invalid"
    ELSE IF c.type \in DOMAIN StructTypes THEN "Struct"
    ELSE "String"

\* the TOML documents a well-formed file holds, keyed by field
PartialDocument == [Bedrock |-> [MetricsPort |-> 9090], Level |-> 3]

FullDocument ==
    [Bedrock |-> [HTTPPort |-> 8080, HealthPort |-> 9090,
                  MetricsPort |-> 9091, LogLevel |-> <<"i", "n", "f", "o">>,
                  Environment |-> <<"d", "e", "v">>],
     Name |-> <<"a", "p", "p">>,
     Level |-> 3,
     Workers |-> 4,
     Debug |-> TRUE,
     Tags |-> << <<"a">> >>,
     Limits |-> [Pool |-> [Size |-> 10]]]

ConfigFiles ==
    {[state |-> "missing"], [state |-> "malformed"],
     [state |-> "valid", doc |-> PartialDocument],
     [state |-> "valid", doc |-> FullDocument]}

\* the decoder's unmarshal: a key of the document sets the exported field
\* it names, every other field keeps its value
RECURSIVE Unmarshal(_, _, _)
Unmarshal(doc, v, t) ==
    [n \in DOMAIN v |->
        LET f == CHOOSE g \in FieldsOf(t) : g.Name = n
        IN  IF ~f.Exported \/ n \notin DOMAIN doc THEN v[n]
            ELSE IF f.Kind = "Struct" THEN Unmarshal(doc[n], v[n], f.Type)
            ELSE doc[n]]

DecodeFile_MissingIsFailure(file, v, t) ==
    CASE file.state \in {"missing", "malformed"} ->
            [v |-> v,
             err |-> Errorf("toml: syntax error", "", "", <<>>, NoError)]
      [] OTHER ->
            [v |-> Unmarshal(file.doc, v, t), err |-> NoError]

\* toml.DecodeFile(l.configPath, config)
DecodeFile(file, v, t) ==
    CASE file.state = "missing" ->
            [v |-> v,
             err |-> Errorf("no such file or directory", "", "", <<>>,
                            NoError)]
      [] file.state = "malformed" ->
            [v |-> v,
             err |-> Errorf("toml: syntax error", "", "", <<>>, NoError)]
      [] OTHER ->
            [v |-> Unmarshal(file.doc, v, t), err |-> NoError]

\* os.IsNotExist
IsNotExist(err) ==
    err # NoError /\ err[1].msg = "no such file or directory"

\* strconv: the value of a decimal digit, and of a run of digits
DigitValue ==
    [c \in {"0", "1", "2", "3", "4", "5", "6", "7", "8", "9"} |->
        CASE c = "0" -> 0 [] c = "1" -> 1 [] c = "2" -> 2 [] c = "3" -> 3
          [] c = "4" -> 4 [] c = "5" -> 5 [] c = "6" -> 6 [] c = "7" -> 7
          [] c = "8" -> 8 [] c = "9" -> 9]

IsDigits(s) == s # <<>> /\ \A i \in DOMAIN s : s[i] \in DOMAIN DigitValue

RECURSIVE Atoi(_)
Atoi(s) ==
    IF s = <<>> THEN 0
    ELSE 10 * Atoi(SubSeq(s, 1, Len(s) - 1)) + DigitValue[s[Len(s)]]

\* strconv.ParseUint(value, 10, 64); the values written here have at most
\* three digits, so the 64-bit range check never fails
ParseUint(s) ==
    IF IsDigits(s) THEN [val |-> Atoi(s), ok |-> TRUE]
    ELSE [val |-> 0, ok |-> FALSE]

\* strconv.ParseInt(value, 10, 64): an optional sign, then digits
ParseInt(s) ==
    IF s = <<>> THEN [val |-> 0, ok |-> FALSE]
    ELSE LET signed == s[1] \in {"+", "-"}
             u == ParseUint(IF signed THEN Tail(s) ELSE s)
         IN  IF ~u.ok THEN [val |-> 0, ok |-> FALSE]
             ELSE [val |-> IF s[1] = "-" THEN 0 - u.val ELSE u.val,
                   ok |-> TRUE]

\* strconv.ParseBool
TrueStrings ==
    {<<"1">>, <<"t">>, <<"T">>, <<"T", "R", "U", "E">>,
     <<"t", "r", "u", "e">>, <<"T", "r", "u", "e">>}

FalseStrings ==
    {<<"0">>, <<"f">>, <<"F">>, <<"F", "A", "L", "S", "E">>,
     <<"f", "a", "l", "s", "e">>, <<"F", "a", "l", "s", "e">>}

ParseBool(s) ==
    IF s \in TrueStrings THEN [val |-> TRUE, ok |-> TRUE]
    ELSE IF s \in FalseStrings THEN [val |-> FALSE, ok |-> TRUE]
    ELSE [val |-> FALSE, ok |-> FALSE]

\* the kinds of the two integer cases of setFieldFromString, with their
\* widths in bits
IntKinds == {"Int", "Int8"}

UintKinds == {"Uint8"}

Bits(kind) == IF kind \in {"Int8", "Uint8"} THEN 8 ELSE 64

\* reflect.Value.SetInt: the int64 converted to the field's type, which
\* keeps the low bits
SetInt(kind, x) ==
    IF Bits(kind) = 8 THEN ((x + 128) % 256) - 128 ELSE x

\* reflect.Value.SetUint
SetUint(kind, x) ==
    IF Bits(kind) = 8 THEN x % 256 ELSE x

\* setFieldFromString(field, value, fieldName); float fields are not among
\* the types modelled
setFieldFromString(field, kind, value, fieldName) ==
    CASE kind = "String" -> [field |-> value, err |-> NoError]
      [] kind \in IntKinds ->
            LET p == ParseInt(value)
            IN  IF ~p.ok
                THEN [field |-> field,
                      err |-> Errorf("cannot parse as int", fieldName, "",
                                     value, NoError)]
                ELSE [field |-> SetInt(kind, p.val), err |-> NoError]
      [] kind \in UintKinds ->
            LET p == ParseUint(value)
            IN  IF ~p.ok
                THEN [field |-> field,
                      err |-> Errorf("cannot parse as uint", fieldName, "",
                                     value, NoError)]
                ELSE [field |-> SetUint(kind, p.val), err |-> NoError]
      [] kind = "Bool" ->
            LET p == ParseBool(value)
            IN  IF ~p.ok
                THEN [field |-> field,
                      err |-> Errorf("cannot parse as bool", fieldName, "",
                                     value, NoError)]
                ELSE [field |-> p.val, err |-> NoError]
      [] OTHER ->
            [field |-> field,
             err |-> Errorf("unsupported field type", fieldName, "", <<>>,
                            NoError)]

\* field.CanSet(): the fields of an addressable struct that are exported
CanSet(fieldType) == fieldType.Exported

\* applyEnvOverridesRecursive(v), from field i on: the struct as the loop
\* leaves it, the error it returned and the variables it read
RECURSIVE applyEnvOverridesFrom(_, _, _, _)
applyEnvOverridesFrom(v, t, i, env) ==
    IF i > Len(StructTypes[t])
    THEN [v |-> v, err |-> NoError, getenv |-> {}]
    ELSE
      LET fieldType == StructTypes[t][i]
          field == v[fieldType.Name]
          continue(w, read) ==
              LET r == applyEnvOverridesFrom(w, t, i + 1, env)
              IN  [r EXCEPT !.getenv = @ \cup read]
      IN  IF ~CanSet(fieldType) THEN continue(v, {})
          ELSE IF fieldType.Kind = "Struct" THEN
              LET sub == applyEnvOverridesFrom(field, fieldType.Type, 1, env)
                  w == [v EXCEPT ![fieldType.Name] = sub.v]
              IN  IF sub.err # NoError
                  THEN [v |-> w, err |-> sub.err, getenv |-> sub.getenv]
                  ELSE continue(w, sub.getenv)
          ELSE IF fieldType.Env = "" THEN continue(v, {})
          ELSE
              LET envValue == Getenv(env, fieldType.Env)
                  set == setFieldFromString(field, fieldType.Kind, envValue,
                                            fieldType.Name)
              IN  IF envValue = <<>> THEN continue(v, {fieldType.Env})
                  ELSE IF set.err # NoError
                  THEN [v |-> v,
                        err |-> Errorf("failed to set field from env",
                                       fieldType.Name, fieldType.Env, <<>>,
                                       set.err),
                        getenv |-> {fieldType.Env}]
                  ELSE continue([v EXCEPT ![fieldType.Name] = set.field],
                                {fieldType.Env})

applyEnvOverridesRecursive(v, t, env) == applyEnvOverridesFrom(v, t, 1, env)

applyEnvOverrides(c, env) == applyEnvOverridesRecursive(c.elem, c.type, env)

Rejected_AfterOpen(c, msg) ==
    [err |-> Errorf(msg, "", "", <<>>, NoError), elem |-> c.elem,
     decoded |-> c.elem, opened |-> TRUE, getenv |-> {}]

\* Load returning before it has touched the file or the environment
Rejected(c, msg) ==
    [err |-> Errorf(msg, "", "", <<>>, NoError), elem |-> c.elem,
     decoded |-> c.elem, opened |-> FALSE, getenv |-> {}]

\* Loader.Load(config), for a Loader whose configPath holds `file`
Load(file, c, env) ==
    IF c.kind = "nil" THEN Rejected(c, "config cannot be nil")
    ELSE IF c.kind # "Ptr"
    THEN Rejected(c, "config must be a pointer to a struct")
    ELSE IF ElemKind(c) # "Struct"
    THEN Rejected(c, "config must be a pointer to a struct")
    ELSE
      LET dec == DecodeFile(file, c.elem, c.type)
          ov == applyEnvOverrides([c EXCEPT !.elem = dec.v], env)
      IN  IF dec.err # NoError /\ ~IsNotExist(dec.err)
          THEN [err |-> Errorf("failed to decode TOML file", "", "", <<>>,
                               dec.err),
                elem |-> dec.v, decoded |-> dec.v, opened |-> TRUE,
                getenv |-> {}]
          ELSE IF ov.err # NoError
          THEN [err |-> Errorf("failed to apply environment overrides", "",
                               "", <<>>, ov.err),
                elem |-> ov.v, decoded |-> dec.v, opened |-> TRUE,
                getenv |-> ov.getenv]
          ELSE [err |-> NoError, elem |-> ov.v, decoded |-> dec.v,
                opened |-> TRUE, getenv |-> ov.getenv]

\* the destinations Load accepts
IsStructPointer(c) == c.kind = "Ptr" /\ ElemKind(c) = "Struct"

\* the environments with the variables of `set` set and no other
Environments(set) ==
    {[k \in EnvNames \cup NomadNames |->
        IF k \in set THEN [set |-> TRUE, val |-> f[k]] ELSE Unset] :
            f \in [set -> EnvStrings]}

LoadInit ==
    /\ RunIdle
    /\ AuthIdle
    /\ CorsIdle
    /\ LockIdle
    /\ config \in Destinations
    /\ configFile \in ConfigFiles
    /\ \E set \in SUBSET EnvNames :
          /\ Cardinality(set) <= (IF IsStructPointer(config)
                                  THEN MaxEnvSet ELSE 1)
          /\ environ \in Environments(set)
    /\ loaded = [done |-> FALSE]
    /\ resolved = [op |-> "none"]

\* the application calls loader.Load(config)
CallLoad ==
    /\ ~loaded.done
    /\ LET r == Load(configFile, config, environ)
       IN  /\ loaded' = [done |-> TRUE, err |-> r.err, before |-> config,
                         decoded |-> r.decoded, opened |-> r.opened,
                         getenv |-> r.getenv]
           /\ config' = [config EXCEPT !.elem = r.elem]
    /\ UNCHANGED <<environ, configFile, resolved>>
    /\ UNCHANGED <<runVars, authVars, corsVars, lockVars>>

LoadNext == CallLoad

LoadSpec == LoadInit /\ [][LoadNext]_vars

(***************************************************************************)
(* Properties of the Config Loader.                                        *)
(***************************************************************************)
Loaded == loaded.done

Succeeded == Loaded /\ loaded.err = NoError

\* what a variable's text denotes for a field of the given kind
Denoted(kind, s) ==
    CASE kind \in IntKinds \cup UintKinds ->
            IF s[1] = "-" THEN 0 - Atoi(Tail(s)) ELSE Atoi(s)
      [] kind = "Bool" -> s \in TrueStrings
      [] OTHER -> s

\* the fields of v (of struct type t) against the decoded struct d: a
\* settable field with an env tag whose variable is non-empty holds what the
\* variable denotes, every other field holds what was decoded
RECURSIVE OverlayOf(_, _, _)
OverlayOf(v, d, t) ==
    \A f \in FieldsOf(t) :
        IF ~CanSet(f) THEN v[f.Name] = d[f.Name]
        ELSE IF f.Kind = "Struct"
        THEN OverlayOf(v[f.Name], d[f.Name], f.Type)
        ELSE IF f.Env # "" /\ Getenv(environ, f.Env) # <<>>
        THEN v[f.Name] = Denoted(f.Kind, Getenv(environ, f.Env))
        ELSE v[f.Name] = d[f.Name]

\* C18: after a successful Load every settable env-tagged field, at any
\* depth of nested structs, holds the value parsed from its environment
\* variable when that variable is set and non-empty, and otherwise the
\* value decoded from the file; untagged fields are left as decoded.
C18_EnvOverridesDecoded ==
    Succeeded => OverlayOf(config.elem, loaded.decoded, config.type)

\* Load ran on a destination it accepts
LoadedStruct == Loaded /\ IsStructPointer(loaded.before)

\* the settable fields with an env tag, at any depth of nested structs
RECURSIVE TaggedFields(_)
TaggedFields(t) ==
    UNION {IF ~CanSet(f) THEN {}
           ELSE IF f.Kind = "Struct" THEN TaggedFields(f.Type)
           ELSE IF f.Env # "" THEN {f}
           ELSE {} : f \in FieldsOf(t)}

\* every field of v (of struct type t) is zero, except the settable tagged
\* fields whose variable is non-empty, which hold what the overlay makes of
\* the variable
RECURSIVE ZeroButOverridden(_, _)
ZeroButOverridden(v, t) ==
    \A f \in FieldsOf(t) :
        IF f.Kind = "Struct"
        THEN IF CanSet(f) THEN ZeroButOverridden(v[f.Name], f.Type)
             ELSE v[f.Name] = Zero(f.Type)
        ELSE IF CanSet(f) /\ f.Env # "" /\ Getenv(environ, f.Env) # <<>>
        THEN v[f.Name] =
                setFieldFromString(ZeroOf(f.Kind), f.Kind,
                                   Getenv(environ, f.Env), f.Name).field
        ELSE v[f.Name] = ZeroOf(f.Kind)

C20_RejectsInvalidDestination ==
    (Loaded /\ ~IsStructPointer(loaded.before)) =>
        /\ loaded.err # NoError
        /\ ~loaded.opened
        /\ loaded.getenv = {}
        /\ config = loaded.before

C20_Witness ==
    /\ Loaded
    /\ loaded.before.kind = "Ptr"
    /\ loaded.before.isNil
    /\ loaded.before.type = "AppConfig"
    /\ configFile.state = "valid"
    /\ environ["HTTP_PORT"].set
    /\ loaded.err # NoError

\* the text s is not a value of a field of the given kind
Unparsable(kind, s) ==
    CASE kind = "Int"   -> ~ParseInt(s).ok
      [] kind = "Int8"  -> ~ParseInt(s).ok
                           \/ ParseInt(s).val \notin (0 - 128)..127
      [] kind = "Uint8" -> ~ParseUint(s).ok \/ ParseUint(s).val \notin 0..255
      [] kind = "Bool"  -> ~ParseBool(s).ok
      [] OTHER          -> FALSE

\* the settable tagged fields whose variable is non-empty
OverriddenFields(t) ==
    {f \in TaggedFields(t) : Getenv(environ, f.Env) # <<>>}

\* those of them whose variable does not parse as the field's type
ParseFailures(t) ==
    {f \in OverriddenFields(t) :
        Unparsable(f.Kind, Getenv(environ, f.Env))}

\* those of them whose kind has no conversion at all
Unsupported(t) == {f \in OverriddenFields(t) : f.Kind = "Slice"}

\* err is the overlay's conversion error about field f
ConversionErrorOf(err, f) ==
    /\ Len(err) = 3
    /\ err[1].msg = "failed to apply environment overrides"
    /\ err[2].msg = "failed to set field from env"
    /\ err[2].field = f.Name
    /\ err[2].env = f.Env
    /\ err[3].msg \in {"cannot parse as int", "cannot parse as uint",
                       "cannot parse as bool"}
    /\ err[3].field = f.Name
    /\ err[3].value = Getenv(environ, f.Env)

\* the file was decoded (or was missing), so that Load reached the overlay
ReachedOverlay == LoadedStruct /\ configFile.state # "malformed"

\* C21: when the non-empty variable of a settable env-tagged field does not
\* parse as the field's declared type, Load does not succeed, and (no field
\* of an unsupported kind being overridden) the error it returns is a
\* conversion error naming such a field, its variable and the offending
\* value.
C21_ConversionErrorReported ==
    (ReachedOverlay /\ ParseFailures(config.type) # {}) =>
        /\ loaded.err # NoError
        /\ Unsupported(config.type) = {} =>
              \E f \in ParseFailures(config.type) :
                  ConversionErrorOf(loaded.err, f)

(***************************************************************************)
(* Nomad-aware port getters of BaseConfig.                                 *)
(***************************************************************************)

\* the port labels of the three getters
Labels == {"http", "health", "metrics"}

\* "NOMAD_PORT_" + label
NomadVar(label) ==
    CASE label = "http"    -> "NOMAD_PORT_http"
      [] label = "health"  -> "NOMAD_PORT_health"
      [] label = "metrics" -> "NOMAD_PORT_metrics"

\* strconv.Atoi
strconvAtoi(s) == ParseInt(s)

resolvePort_ConfiguredFirst(label, fallback, env) ==
    LET nomadPort == Getenv(env, NomadVar(label))
        p == strconvAtoi(nomadPort)
    IN  IF fallback # 0 \/ nomadPort = <<>> \/ ~p.ok
        THEN [port |-> fallback, log |-> "none"]
        ELSE [port |-> p.val, log |-> "using"]

\* resolvePort(label, fallback): the port and what is logged
resolvePort(label, fallback, env) ==
    LET nomadPort == Getenv(env, NomadVar(label))
        p == strconvAtoi(nomadPort)
    IN  IF nomadPort = <<>> THEN [port |-> fallback, log |-> "none"]
        ELSE IF ~p.ok THEN [port |-> fallback, log |-> "warning"]
        ELSE [port |-> p.val, log |-> "using"]

GetHTTPPort(b, env) == resolvePort("http", b.HTTPPort, env)

GetHealthPort(b, env) == resolvePort("health", b.HealthPort, env)

GetMetricsPort(b, env) == resolvePort("metrics", b.MetricsPort, env)

\* the variables that bear on a port
PortEnvNames == {"HTTP_PORT", "HEALTH_PORT", "METRICS_PORT"} \cup NomadNames

PortInit ==
    /\ RunIdle
    /\ AuthIdle
    /\ CorsIdle
    /\ LockIdle
    /\ config = [kind |-> "Ptr", type |-> "AppConfig", isNil |-> FALSE,
                 elem |-> Zero("AppConfig")]
    /\ configFile \in {[state |-> "missing"],
                       [state |-> "valid", doc |-> FullDocument]}
    /\ \E set \in SUBSET PortEnvNames :
          /\ Cardinality(set) <= MaxEnvSet
          /\ environ \in Environments(set)
    /\ loaded = [done |-> FALSE]
    /\ resolved = [op |-> "none"]

\* the application calls one of the getters on the embedded BaseConfig
GetPort ==
    /\ \E label \in Labels :
          LET b == config.elem.Bedrock
              r == CASE label = "http"    -> GetHTTPPort(b, environ)
                     [] label = "health"  -> GetHealthPort(b, environ)
                     [] label = "metrics" -> GetMetricsPort(b, environ)
          IN  resolved' = [op |-> "get", label |-> label, port |-> r.port,
                           log |-> r.log]
    /\ UNCHANGED <<environ, configFile, config, loaded>>
    /\ UNCHANGED <<runVars, authVars, corsVars, lockVars>>

PortNext ==
    \/ CallLoad
    \/ GetPort

PortSpec == PortInit /\ [][PortNext]_vars

\* the stored port field a label stands for
PortField(b, label) ==
    CASE label = "http"    -> b.HTTPPort
      [] label = "health"  -> b.HealthPort
      [] label = "metrics" -> b.MetricsPort

\* NOMAD_PORT_<label> is set to the text of an integer
NomadAssigned(label) ==
    /\ Getenv(environ, NomadVar(label)) # <<>>
    /\ ParseInt(Getenv(environ, NomadVar(label))).ok

\* C22: a port getter returns the integer in NOMAD_PORT_<label> whenever
\* that variable is set and parses, whatever the file and the plain port
\* variables made of the field; otherwise it returns the field's current
\* value; and it never modifies the stored field.
C22_NomadPortPrecedence ==
    [][resolved' # resolved =>
          /\ config' = config
          /\ resolved'.port =
                IF NomadAssigned(resolved'.label)
                THEN Denoted("Int", Getenv(environ,
                                           NomadVar(resolved'.label)))
                ELSE PortField(config.elem.Bedrock, resolved'.label)]_vars

C22_Witness ==
    /\ Succeeded
    /\ resolved.op = "get"
    /\ resolved.label = "http"
    /\ configFile.state = "valid"
    /\ config.elem.Bedrock.HTTPPort = 300
    /\ resolved.port = 42

(***************************************************************************)
(* The main server: the routes registered on the mux.Router and the CORS   *)
(* layer wrapped around it.                                                *)
(***************************************************************************)

\* longest AllowedOrigins list
MaxOrigins == 2

AllowedOriginValues == {"*", "https://a.example", "https://b.example"}

\* values of a request's Origin header; the empty one is the absent header
RequestOrigins == {"", "https://a.example", "https://evil.example"}

OriginLists == UNION {[1..n -> AllowedOriginValues] : n \in 0..MaxOrigins}

\* the CORS configurations an application passes: the default one and a
\* bare one, each with every list of origins
CORSConfigs ==
    {[DefaultCORSConfig EXCEPT !.AllowedOrigins = o] : o \in OriginLists}
    \cup {[AllowedOrigins |-> o, AllowedMethods |-> <<>>,
           AllowedHeaders |-> <<>>, ExposedHeaders |-> <<>>,
           AllowCredentials |-> TRUE, MaxAge |-> 0] : o \in OriginLists}

\* Route{Method, Path, Handler, Middleware}
AppMethods == {"GET", "OPTIONS"}

AppPaths == {"/items", "/admin"}

AppRouteSet ==
    [Method : AppMethods, Path : AppPaths,
     Handler : {<<Terminal(StatusOK)>>},
     Middleware : {<<>>, <<Auth("k1")>>}]

AppRouteLists == UNION {[1..n -> AppRouteSet] : n \in 1..MaxRoutes}

\* w.Header().Set(name, value)
SetHeader(header, name, value) ==
    [n \in DOMAIN header \cup {name} |->
        IF n = name THEN value ELSE header[n]]

\* the loop over cfg.AllowedOrigins, from entry i on, with its break
RECURSIVE AllowOriginFrom(_, _, _)
AllowOriginFrom(allowedOrigins, origin, i) ==
    IF i > Len(allowedOrigins) THEN [allowed |-> FALSE, origin |-> origin]
    ELSE IF allowedOrigins[i] = "*" \/ allowedOrigins[i] = origin
    THEN [allowed |-> TRUE,
          origin |-> IF allowedOrigins[i] = "*" THEN "*" ELSE origin]
    ELSE AllowOriginFrom(allowedOrigins, origin, i + 1)

AllowOrigin_EchoAny(allowedOrigins, origin) ==
    [allowed |-> allowedOrigins # <<>>, origin |-> origin]

AllowOrigin(allowedOrigins, origin) ==
    AllowOriginFrom(allowedOrigins, origin, 1)

\* the entries of a list joined with ", "
RECURSIVE Join(_)
Join(list) ==
    IF Len(list) <= 1 THEN list
    ELSE <<Head(list), ", ">> \o Join(Tail(list))

\* fmt.Sprintf("%d", n) for n >= 0
RECURSIVE Sprintf(_)
Sprintf(n) ==
    LET digit == <<"0", "1", "2", "3", "4", "5", "6", "7", "8", "9">>
    IN  IF n < 10 THEN <<digit[n + 1]>>
        ELSE Sprintf(n \div 10) \o <<digit[(n % 10) + 1]>>

\* the response headers corsMiddleware sets before it calls next
CORSHeaders(c, r) ==
    LET a == AllowOrigin(c.AllowedOrigins, r.Origin)
        h0 == <<>>
        h1 == IF a.allowed
              THEN SetHeader(h0, "Access-Control-Allow-Origin", <<a.origin>>)
              ELSE h0
        h2 == IF Len(c.AllowedMethods) > 0
              THEN SetHeader(h1, "Access-Control-Allow-Methods",
                             Join(c.AllowedMethods))
              ELSE h1
        h3 == IF Len(c.AllowedHeaders) > 0
              THEN SetHeader(h2, "Access-Control-Allow-Headers",
                             Join(c.AllowedHeaders))
              ELSE h2
        h4 == IF Len(c.ExposedHeaders) > 0
              THEN SetHeader(h3, "Access-Control-Expose-Headers",
                             Join(c.ExposedHeaders))
              ELSE h3
        h5 == IF c.AllowCredentials
              THEN SetHeader(h4, "Access-Control-Allow-Credentials",
                             <<"true">>)
              ELSE h4
    IN  IF c.MaxAge > 0
        THEN SetHeader(h5, "Access-Control-Max-Age", Sprintf(c.MaxAge))
        ELSE h5

\* the registration loop over routes, from route i on: the route under its
\* method with its handler, then the OPTIONS responder for the same path
RECURSIVE RegisterFrom(_, _)
RegisterFrom(rs, i) ==
    IF i > Len(rs) THEN <<>>
    ELSE LET r == rs[i]
             h == IF Len(r.Middleware) > 0
                  THEN Chain(r.Handler, r.Middleware)
                  ELSE r.Handler
         IN  <<[Path |-> r.Path, Method |-> r.Method, Kind |-> "route",
                Handler |-> h],
               [Path |-> r.Path, Method |-> "OPTIONS", Kind |-> "preflight",
                Handler |-> <<>>]>>
             \o RegisterFrom(rs, i + 1)

StatusNotFound == 404
StatusMethodNotAllowed == 405

RouterServe_RouteOnly(mx, header, r, t) ==
    LET paths == {i \in DOMAIN mx : mx[i].Path = r.Path}
        i == CHOOSE j \in paths : \A k \in paths : j <= k
        out == Serve(mx[i].Handler, Background, r, t)
    IN  IF paths = {} \/ mx[i].Kind # "route"
        THEN [status |-> StatusNotFound, header |-> header, body |-> <<>>,
              trace |-> <<>>, by |-> "notFound"]
        ELSE [status |-> out.resp.StatusCode,
              header |-> SetHeader(header, "Content-Type",
                                   <<"application/json">>),
              body |-> <<out.resp.Data>>, trace |-> out.trace,
              by |-> "route"]

\* mux.Router.ServeHTTP: the first registration whose path and method both
\* match the request answers it; 405 when only paths match, 404 when none
RouterServe(mx, header, r, t) ==
    LET paths == {i \in DOMAIN mx : mx[i].Path = r.Path}
        matches == {i \in paths : mx[i].Method = r.Method}
        i == CHOOSE j \in matches : \A k \in matches : j <= k
        out == Serve(mx[i].Handler, Background, r, t)
    IN  IF matches = {}
        THEN IF paths # {}
             THEN [status |-> StatusMethodNotAllowed, header |-> header,
                   body |-> <<>>, trace |-> <<>>, by |-> "methodNotAllowed"]
             ELSE [status |-> StatusNotFound,
                   header |-> SetHeader(header, "Content-Type",
                                        <<"text/plain; charset=utf-8">>),
                   body |-> <<"404 page not found">>, trace |-> <<>>,
                   by |-> "notFound"]
        ELSE IF mx[i].Kind = "preflight"
        THEN [status |-> StatusOK, header |-> header, body |-> <<>>,
              trace |-> <<>>, by |-> "preflight"]
        ELSE [status |-> out.resp.StatusCode,
              header |-> SetHeader(header, "Content-Type",
                                   <<"application/json">>),
              body |-> <<out.resp.Data>>, trace |-> out.trace,
              by |-> "route"]

\* corsMiddleware(cfg)(mx).ServeHTTP(w, r)
corsMiddleware(c, mx, r, t) ==
    [RouterServe(mx, CORSHeaders(c, r), r, t) EXCEPT !.by = <<"cors", @>>]

\* a token the routes' RequireAuth accepts
ValidBearer ==
    <<Word("Bearer"), Space, TokenChunk(GenerateJWT("alice", "k1", MaxTTL, 0))>>

RequestMethods == {"GET", "OPTIONS"}

RequestPaths == AppPaths \cup {"/other"}

CorsInit ==
    /\ RunIdle
    /\ AuthIdle
    /\ LoadIdle
    /\ LockIdle
    /\ corsConfig \in CORSConfigs
    /\ appRoutes \in AppRouteLists
    /\ mainRouter = <<>>
    /\ httpRequest = [op |-> "none"]
    /\ httpResponse = [op |-> "none"]

\* the registration loop of RunWithCORS
RegisterRoutes ==
    /\ mainRouter = <<>>
    /\ mainRouter' = RegisterFrom(appRoutes, 1)
    /\ UNCHANGED <<corsConfig, appRoutes, httpRequest, httpResponse>>
    /\ UNCHANGED <<runVars, authVars, loadVars, lockVars>>

\* the main server receives a request.  Neither the router nor the CORS
\* layer keeps state between requests, so one request per behaviour is
\* examined.
ServeHTTP ==
    /\ mainRouter # <<>>
    /\ httpRequest.op = "none"
    /\ \E m \in RequestMethods, path \in RequestPaths,
          origin \in RequestOrigins, authHeader \in {<<>>, ValidBearer} :
          LET r == [op |-> "request", Method |-> m, Path |-> path,
                    Origin |-> origin, Authorization |-> authHeader]
              out == corsMiddleware(corsConfig, mainRouter, r, now)
          IN  /\ httpRequest' = r
              /\ httpResponse' = [op |-> "response", status |-> out.status,
                                  header |-> out.header, body |-> out.body,
                                  trace |-> out.trace, by |-> out.by]
    /\ UNCHANGED <<corsConfig, appRoutes, mainRouter>>
    /\ UNCHANGED <<runVars, authVars, loadVars, lockVars>>

CorsNext ==
    \/ RegisterRoutes
    \/ ServeHTTP

CorsSpec == CorsInit /\ [][CorsNext]_vars

(***************************************************************************)
(* Properties of the CORS layer and the registered routes.                 *)
(***************************************************************************)
Answered == httpResponse.op = "response"

Range(list) == {list[i] : i \in DOMAIN list}

WildcardConfigured == "*" \in Range(corsConfig.AllowedOrigins)

\* the request carries an Origin header equal to a configured origin
OriginConfigured ==
    /\ httpRequest.Origin # ""
    /\ httpRequest.Origin \in Range(corsConfig.AllowedOrigins)

AllowOriginHeader == "Access-Control-Allow-Origin"

\* C23: Access-Control-Allow-Origin is set iff the wildcard is configured
\* or the request's Origin equals a configured origin; it holds the
\* request's origin when an exact origin matched and "*" when the wildcard
\* matched (whichever entry comes first when both do); and the request is
\* passed on to the router in every case.
C23_AllowOriginHeader ==
    Answered =>
        /\ AllowOriginHeader \in DOMAIN httpResponse.header
              <=> (WildcardConfigured \/ OriginConfigured)
        /\ (OriginConfigured /\ ~WildcardConfigured) =>
              httpResponse.header[AllowOriginHeader] = <<httpRequest.Origin>>
        /\ (WildcardConfigured /\ ~OriginConfigured) =>
              httpResponse.header[AllowOriginHeader] = <<"*">>
        /\ (WildcardConfigured /\ OriginConfigured) =>
              httpResponse.header[AllowOriginHeader]
                  \in {<<"*">>, <<httpRequest.Origin>>}
        /\ httpResponse.by[1] = "cors"
        /\ httpResponse.by[2] \in {"route", "preflight", "notFound",
                                   "methodNotAllowed"}

C23_Witness ==
    /\ Answered
    /\ corsConfig.AllowedOrigins = <<"https://b.example", "https://a.example">>
    /\ httpRequest.Origin = "https://a.example"
    /\ httpResponse.header[AllowOriginHeader] = <<"https://a.example">>
    /\ httpResponse.by = <<"cors", "route">>

\* the application routes declared for the request's path
RoutesForPath ==
    {i \in DOMAIN appRoutes : appRoutes[i].Path = httpRequest.Path}

\* an OPTIONS request to a path some application route declares
PreflightToDeclaredPath ==
    /\ Answered
    /\ httpRequest.Method = "OPTIONS"
    /\ RoutesForPath # {}

\* status 200, the configured CORS headers and nothing else, no body, and
\* nothing of any route was run
BarePreflight ==
    /\ httpResponse.status = StatusOK
    /\ httpResponse.header = CORSHeaders(corsConfig, httpRequest)
    /\ httpResponse.body = <<>>
    /\ httpResponse.trace = <<>>

\* the first route declared for the request's path
FirstRouteForPath ==
    appRoutes[CHOOSE i \in RoutesForPath : \A k \in RoutesForPath : i <= k]

\* C24 (as stated): an OPTIONS request to any path declared by an
\* application route receives a bare 200 with the configured CORS headers,
\* and neither the route's handler nor its middleware is invoked.
C24_PreflightBypassesRoute ==
    PreflightToDeclaredPath => BarePreflight

\* C24 (amended): that holds unless the first route the application
\* declares for the path has the method OPTIONS itself; that route is
\* registered ahead of the OPTIONS responder, and its middleware and handler
\* answer the request.
C24_PreflightUnlessOptionsRoute ==
    PreflightToDeclaredPath =>
        IF FirstRouteForPath.Method # "OPTIONS" THEN BarePreflight
        ELSE /\ httpResponse.by = <<"cors", "route">>
             /\ httpResponse.trace # <<>>
             /\ httpResponse.trace[1] =
                   Chain(FirstRouteForPath.Handler,
                         FirstRouteForPath.Middleware)[1].id

C24_Witness ==
    /\ PreflightToDeclaredPath
    /\ Len(appRoutes) = 2
    /\ appRoutes[1].Method = "GET"
    /\ appRoutes[1].Middleware # <<>>
    /\ appRoutes[2].Method = "OPTIONS"
    /\ appRoutes[2].Path = appRoutes[1].Path
    /\ httpRequest.Authorization = <<>>
    /\ httpResponse.status = StatusOK
    /\ httpResponse.by = <<"cors", "preflight">>

(***************************************************************************)
(* Further properties of RequireAuth and Chain.                            *)
(***************************************************************************)

\* the request was answered 401 by the auth middleware
Rejected401 ==
    /\ Served
    /\ response.resp.StatusCode = StatusUnauthorized

\* the headers another request could have carried at the same moment
OtherHeaders ==
    {<<>>, <<Word("Bearer")>>, <<Word("bearer"), Space, TokenChunk(token)>>,
     <<Word("Bearer"), Space, TokenChunk(token)>>}
    \cup {<<Word("Bearer"), Space, TokenChunk(other)>> :
            other \in ForeignTokens(request.at)}

\* what the handler answers to the same request with another header
ResponseTo(authHeader) ==
    Serve(handler, request.ctx,
          [request EXCEPT !.Authorization = authHeader], request.at).resp

\* C25 (as stated): two requests that the auth middleware rejects are
\* answered with the same response, whichever check failed.
C25_RejectionsIndistinguishable ==
    Rejected401 =>
        \A authHeader \in OtherHeaders :
            ResponseTo(authHeader).StatusCode = StatusUnauthorized =>
                ResponseTo(authHeader) = response.resp

\* which of the three checks of RequireAuth a header fails first
FailedCheck(authHeader) ==
    IF authHeader = <<>> THEN "missing"
    ELSE IF ~BearerShaped(authHeader) THEN "format"
    ELSE "token"

\* C25 (amended): two rejected requests are answered with the same response
\* when they fail the same check: every token that fails validation, for
\* whatever reason, gets the one body "invalid token"; the missing header
\* and the badly formed header each have a body of their own.
C25_SameCheckSameResponse ==
    Rejected401 =>
        \A authHeader \in OtherHeaders :
            (/\ ResponseTo(authHeader).StatusCode = StatusUnauthorized
             /\ FailedCheck(authHeader) = FailedCheck(request.Authorization))
                => ResponseTo(authHeader) = response.resp

C25_Witness ==
    /\ Rejected401
    /\ BearerShaped(request.Authorization)
    /\ BearerValidation.err = "token is expired"
    /\ \E other \in ForeignTokens(request.at) :
          /\ ValidateJWT(other, middlewares[1].secret, request.at).err
                = "signature is invalid"
          /\ ResponseTo(<<Word("Bearer"), Space, TokenChunk(other)>>)
                = response.resp

(***************************************************************************)
(* Further properties of the Server Runner and the health tracker.         *)
(***************************************************************************)

\* C26: once Run has returned the error of OnStart, the health server it
\* started has been shut down: its goroutine is neither about to listen nor
\* listening.
C26_HealthStoppedOnStartError ==
    runResult = "startError" =>
        healthServer \notin {"spawned", "listening", "draining"}

(***************************************************************************)
(* HealthStatus under concurrent use: each method takes h.mu, touches one  *)
(* flag and releases h.mu on return.  Whether a goroutine waiting in Lock  *)
(* holds back new readers bears on progress only and is left out.          *)
(***************************************************************************)

\* h.mu.Lock() can return
CanLock(m) == ~m.writer /\ m.readers = 0

Lock(m) == [m EXCEPT !.writer = TRUE]

Unlock(m) == [m EXCEPT !.writer = FALSE]

CanRLock_Always(m) == TRUE

\* h.mu.RLock() can return
CanRLock(m) == ~m.writer

RLock(m) == [m EXCEPT !.readers = @ + 1]

RUnlock(m) == [m EXCEPT !.readers = @ - 1]

Writes == {"SetHealthy", "SetReady"}

Reads == {"IsHealthy", "IsReady"}

\* the flag a method touches
FlagTouched(op) == IF op \in {"SetHealthy", "IsHealthy"} THEN "healthy" ELSE "ready"

\* everything of Run but the HealthStatus
runVarsButHealth ==
    <<cfg, routes, pc, healthServer, server, router, regIdx, onStartCalls,
      onStartResult, onStopCalls, onStopResult, notified, quit, sigDelivered,
      sigReceived, mainDrain, healthDrain, runResult, lastProbe>>

LockInit ==
    /\ RunIdle
    /\ AuthIdle
    /\ LoadIdle
    /\ CorsIdle
    /\ LockIdle

\* goroutine t enters a method of the HealthStatus
CallMethod(t) ==
    /\ threads[t].pc = "idle"
    /\ \E op \in Writes \cup Reads, arg \in BOOLEAN :
          /\ op \in Reads => arg = FALSE
          /\ threads' = [threads EXCEPT ![t] =
                            [op |-> op, arg |-> arg, pc |-> "lock",
                             ret |-> FALSE]]
    /\ UNCHANGED <<mu, lastWritten, healthStatus>>

\* h.mu.Lock() or h.mu.RLock() returns in goroutine t
AcquireLock(t) ==
    /\ threads[t].pc = "lock"
    /\ IF threads[t].op \in Writes
       THEN CanLock(mu) /\ mu' = Lock(mu)
       ELSE CanRLock(mu) /\ mu' = RLock(mu)
    /\ threads' = [threads EXCEPT ![t].pc = "access"]
    /\ UNCHANGED <<lastWritten, healthStatus>>

\* the body of the method: h.healthy = healthy, return h.ready, ...
AccessFlag(t) ==
    /\ threads[t].pc = "access"
    /\ CASE threads[t].op = "SetHealthy" ->
              /\ healthStatus' = SetHealthy(healthStatus, threads[t].arg)
              /\ threads' = [threads EXCEPT ![t].pc = "unlock"]
         [] threads[t].op = "SetReady" ->
              /\ healthStatus' = SetReady(healthStatus, threads[t].arg)
              /\ threads' = [threads EXCEPT ![t].pc = "unlock"]
         [] threads[t].op = "IsHealthy" ->
              /\ threads' = [threads EXCEPT ![t].pc = "unlock",
                                            ![t].ret = IsHealthy(healthStatus)]
              /\ UNCHANGED healthStatus
         [] threads[t].op = "IsReady" ->
              /\ threads' = [threads EXCEPT ![t].pc = "unlock",
                                            ![t].ret = IsReady(healthStatus)]
              /\ UNCHANGED healthStatus
    /\ UNCHANGED <<mu, lastWritten>>

\* the deferred h.mu.Unlock() or h.mu.RUnlock() runs and the method returns
ReleaseLock(t) ==
    /\ threads[t].pc = "unlock"
    /\ IF threads[t].op \in Writes
       THEN /\ mu' = Unlock(mu)
            /\ lastWritten' =
                  [lastWritten EXCEPT ![FlagTouched(threads[t].op)] =
                      threads[t].arg]
       ELSE /\ mu' = RUnlock(mu)
            /\ UNCHANGED lastWritten
    /\ threads' = [threads EXCEPT ![t] = Outside]
    /\ UNCHANGED healthStatus

LockNext ==
    /\ \E t \in Threads :
          \/ CallMethod(t)
          \/ AcquireLock(t)
          \/ AccessFlag(t)
          \/ ReleaseLock(t)
    /\ UNCHANGED <<runVarsButHealth, authVars, loadVars, corsVars>>

LockSpec == LockInit /\ [][LockNext]_vars

\* goroutine t is between the lock and the unlock of its method
Holding(t) == threads[t].pc \in {"access", "unlock"}

\* C27: a SetHealthy or SetReady that holds the lock overlaps with no other
\* method, writer or reader, and a reader that has read its flag returns
\* the value the last completed write of that flag left.
C27_WritesExclusive ==
    /\ \A t1, t2 \in Threads :
          (t1 # t2 /\ Holding(t1) /\ threads[t1].op \in Writes)
              => ~Holding(t2)
    /\ \A t \in Threads :
          (threads[t].pc = "unlock" /\ threads[t].op \in Reads)
              => threads[t].ret = lastWritten[FlagTouched(threads[t].op)]

\* two reads overlap, after a write has changed what they read
C27_Witness ==
    /\ threads[1].op = "IsHealthy" /\ threads[1].pc = "unlock"
    /\ threads[2].op = "IsReady" /\ Holding(2)
    /\ threads[1].ret = TRUE
    /\ threads[3].op = "SetReady" /\ threads[3].pc = "lock"

\* what the method calls alone do to the flags
SettersIndependent ==
    /\ newHealthStatus = [healthy |-> FALSE, ready |-> FALSE]
    /\ \A b \in BOOLEAN :
          /\ SetHealthy(healthStatus, b).ready = healthStatus.ready
          /\ SetReady(healthStatus, b).healthy = healthStatus.healthy

\* C28: a new tracker has both flags false; SetHealthy leaves ready as it
\* is and SetReady leaves healthy as it is; the flags change only in a step
\* of the Server Runner, one flag at a time, and never when the health
\* listener serves a request.
C28_FlagsIndependent ==
    /\ []SettersIndependent
    /\ [][/\ lastProbe' # lastProbe => healthStatus' = healthStatus
          /\ healthStatus' # healthStatus =>
                /\ pc' # pc
                /\ \/ healthStatus'.healthy = healthStatus.healthy
                   \/ healthStatus'.ready = healthStatus.ready]_vars

C28_Witness ==
    /\ healthStatus = [healthy |-> TRUE, ready |-> FALSE]
    /\ pc = "getRoutes"
    /\ lastProbe = [path |-> "/ready", status |-> StatusServiceUnavailable]

\* middleware m answers the request itself, without calling next
ShortCircuits(m) ==
    \/ m.kind = "deny"
    \/ /\ m.kind = "auth"
       /\ \/ ~BearerShaped(request.Authorization)
          \/ ValidateJWT(TokenStringOf(SubSeq(request.Authorization, 3,
                                              Len(request.Authorization))),
                         m.secret, request.at).err # "nil"

\* the positions in the chain of the middlewares that would short-circuit
ShortCircuiting ==
    {i \in DOMAIN middlewares : ShortCircuits(middlewares[i])}

FirstShortCircuit ==
    CHOOSE i \in ShortCircuiting : \A k \in ShortCircuiting : i <= k

\* the response a short-circuiting middleware returns
OwnResponse(m) ==
    IF m.kind = "deny" THEN Error([error |-> "denied"])
    ELSE Serve(<<m, Terminal(StatusOK)>>, request.ctx, request,
               request.at).resp

\* C29: when middleware mi of Chain(handler, m1, ..., mn) returns without
\* calling next, m1..mi are what ran, in that order: none of m(i+1)..mn nor
\* the terminal handler is executed, and the caller receives the response
\* mi returned.
C29_ShortCircuit ==
    (Served /\ ShortCircuiting # {}) =>
        /\ response.trace = IdsOf(SubSeq(middlewares, 1, FirstShortCircuit))
        /\ response.seen = <<>>
        /\ response.resp = OwnResponse(middlewares[FirstShortCircuit])

C29_Witness ==
    /\ Served
    /\ middlewares = <<Log("m1"), Auth("k1"), Log("m2")>>
    /\ request.Authorization = <<Word("Bearer"), Space, TokenChunk(<<RawSegment>>)>>
    /\ response.trace = <<"m1", "auth">>
    /\ response.resp.StatusCode = StatusUnauthorized

(***************************************************************************)
(* The overlay's order of visit.                                           *)
(***************************************************************************)

\* the settable env-tagged fields of struct type t in the order the overlay
\* visits them (declaration order, depth-first), each with its path from
\* the struct at `path`
RECURSIVE VisitOrderFrom(_, _, _)
VisitOrderFrom(t, i, path) ==
    IF i > Len(StructTypes[t]) THEN <<>>
    ELSE LET f == StructTypes[t][i]
             here == IF ~CanSet(f) THEN <<>>
                     ELSE IF f.Kind = "Struct"
                     THEN VisitOrderFrom(f.Type, 1, Append(path, f.Name))
                     ELSE IF f.Env # ""
                     THEN <<[field |-> f, path |-> Append(path, f.Name)]>>
                     ELSE <<>>
         IN  here \o VisitOrderFrom(t, i + 1, path)

VisitOrder(t) == VisitOrderFrom(t, 1, <<>>)

\* the field of struct value v at the end of a path of field names
RECURSIVE ValueAt(_, _)
ValueAt(v, path) ==
    IF path = <<>> THEN v ELSE ValueAt(v[Head(path)], Tail(path))

\* Load returned the overlay's error about one field
ConversionFailed ==
    /\ LoadedStruct
    /\ Len(loaded.err) >= 2
    /\ loaded.err[2].msg = "failed to set field from env"

\* the position in the order of visit of the field the error is about
FailedAt ==
    CHOOSE k \in DOMAIN VisitOrder(config.type) :
        VisitOrder(config.type)[k].field.Env = loaded.err[2].env

\* C30: when Load returns a conversion error the destination is left as
\* the overlay had it: each env-tagged field visited before the failing one
\* holds the value of its variable (or, its variable being empty, what was
\* decoded), the failing field and every later one hold what was decoded,
\* and no variable of a later field was read.
C30_NoRollback ==
    ConversionFailed =>
        LET order == VisitOrder(config.type)
            k == FailedAt
        IN  /\ \A i \in 1..(k - 1) :
                  LET envValue == Getenv(environ, order[i].field.Env)
                  IN  ValueAt(config.elem, order[i].path) =
                         IF envValue # <<>>
                         THEN Denoted(order[i].field.Kind, envValue)
                         ELSE ValueAt(loaded.decoded, order[i].path)
            /\ \A i \in k..Len(order) :
                  ValueAt(config.elem, order[i].path) =
                     ValueAt(loaded.decoded, order[i].path)
            /\ loaded.getenv = {order[i].field.Env : i \in 1..k}

====
